---- MODULE Spec2Model ----
(***************************************************************************)
(* Verification model of node-manager's mindreader pipeline.               *)
(*                                                                         *)
(*   Spec          the MindReaderPlugin of src/mindreader/mindreader.go:   *)
(*                 Launch, LogLine, Stop, Shutdown, the ingest task        *)
(*                 (readOneMessage, drainMessages) and the consumer task   *)
(*                 (consumeReadFlow), over the channels `lines` and        *)
(*                 `blocks`.                                               *)
(***************************************************************************)
EXTENDS Integers, Sequences, FiniteSets, TLC

(***************************************************************************)
(* Bounds of the model.                                                    *)
(***************************************************************************)
\* Blocks the Console Reader produces in one run.
MaxBlocks == 3
\* LogLine calls made by the supervised process in one run.
MaxLines == 3
\* Capacity of the `lines` channel (10000 in Launch), scaled down.
LinesCapacity == 2
\* Capacity of the `blocks` channel (the channelCapacity parameter).
ChannelCapacity == 2
\* The stop block number used when a stop block is configured.
StopBlockNum == 2
\* Concurrent callers of Stop.
MaxStops == 1
\* The block number of the start gate, when there is one.
StartBlockNum == 2

StopCallers == 1..MaxStops

(***************************************************************************)
(* State of the MindReaderPlugin and of its tasks.                         *)
(***************************************************************************)
VARIABLES
    terminating,          \* shutter.IsTerminating()
    shutdownErr,          \* error of the Shutdown call that won: "unset" before
    rootCtx,              \* Launch's ctx: "none", "live", "unhooked", "cancelled"
    lines,                \* buffer of p.lines
    linesSt,              \* p.lines: "nil", "open" or "closed"
    consoleReader,        \* p.consoleReader: "nil" or "set"
    consumeReadFlowDone,  \* p.consumeReadFlowDone: "nil", "open" or "closed"
    blocks,               \* buffer of the blocks channel made by launch()
    blocksSt,             \* "nil", "open" or "closed"
    stopBlock,            \* p.stopBlock
    blockStreamServer,    \* p.blockStreamServer != nil
    launchPc,             \* position of Launch
    ingestPc,             \* position of the ingest goroutine of launch()
    ingestBlk,            \* block held by readOneMessage
    consumePc,            \* position of consumeReadFlow
    consumeBlk,           \* block held by consumeReadFlow
    stopPc,               \* position of each Stop call
    logPc,                \* position of the LogLine call
    goShutdown,           \* pending `go p.Shutdown(..)` goroutines, by error kind
    archiverShutdown,     \* p.archiver.Shutdown was called
    archiverTerminated,   \* p.archiver.Terminated() is closed
    nextNum,              \* number of the next block the Console Reader yields
    logCalls,             \* LogLine calls made so far
    readLog,              \* blocks returned by consoleReader.ReadBlock, in order
    sentLog,              \* blocks sent on `blocks`, in order
    storeLog,             \* blocks passed to archiver.StoreBlock, in order
    pushLog,              \* blocks passed to blockStreamServer.PushBlock, in order
    storeActive,          \* StoreBlock calls in progress
    queuedAtStop,         \* blocks buffered in `blocks` when Stop was called
    sendWaited,           \* the ingest task has waited on a full `blocks`
    storeErr,             \* the block consumeReadFlow is taking to the block
                          \* stream server is one StoreBlock failed on
    callErr,              \* `err` of consumeReadFlow's iteration: "none", or
                          \* the call that returned the error it holds,
                          \* "store" or "push"
    panicked              \* the process died of a runtime panic: "no" or why

(***************************************************************************)
(* The repository holds two versions of the plugin.  "current" is          *)
(* mindreader/mindreader.go; "previous" is the one with the start gate,    *)
(* the dropBlocks flag and waitUploadCompleteOnShutdown.  These variables  *)
(* are the state only the previous version has; they never change in the   *)
(* current one.                                                            *)
(***************************************************************************)
VARIABLES
    version,              \* "current" or "previous"
    startBlock,           \* the block number of p.startGate
    dropBlocks,           \* consumeReadFlow's local `dropBlocks`
    fatalAt               \* StoreBlock calls made when the consumer loop first
                          \* met a StoreBlock or PushBlock error while not
                          \* terminating; -1 before

(***************************************************************************)
(* The head block update hook.                                             *)
(***************************************************************************)
VARIABLES
    headBlockUpdateFunc,  \* whether p.headBlockUpdateFunc is set (not nil)
    headLog               \* block numbers the hook was called with, in order

(***************************************************************************)
(* State of the Archiver and of the ArchiverIO it writes through.          *)
(***************************************************************************)
VARIABLES
    archiver,             \* the Archiver: bundleSize, batchMode,
                          \* mergeThresholdBlockAge, currentlyMerging, bundler
    io,                   \* the ArchiverIO: its lanes and the calls counted
    scenario,             \* which run this is: a test of the repository or "free"
    script,               \* blocks the run has still to pass to storeBlock
    step,                 \* storeBlock calls made
    passed,               \* the blocks passed to storeBlock
    last                  \* the latest storeBlock call: its block, and the
                          \* Archiver and the IO as they were before it

(***************************************************************************)
(* State of the supervisor's Monitor loop.  Time is counted in sleeps of   *)
(* the loop (5 s); the head block's time is kept as its age when it was    *)
(* read.                                                                   *)
(***************************************************************************)
VARIABLES
    getInfoFailureCount,  \* Monitor's local getInfoFailureCount
    readinessProbe,       \* s.readinessProbe
    readinessMaxLatency,  \* s.options.ReadinessMaxLatency
    monitorHeadBlock,     \* s.options.MonitorHeadBlock
    lastHeadBlockTime,    \* time.Since(lastHeadBlockTime) when it was set;
                          \* -1 for the zero time
    lastBlockSeen,        \* s.lastBlockSeen
    headBlockNumber,      \* the s.headBlockNumber gauge
    lastDbSizeTime,       \* sleeps since lastDbSizeTime; -1 for the zero time
    isBlockProducer,      \* the metric of SetNodeosIsBlockProducer
    monitorLast,          \* the latest iteration: its kind, the head block's
                          \* age it read, the probe and the count before it,
                          \* and the queries it made
    monitorPc             \* where Monitor waits: in time.Sleep ("sleep"), in
                          \* s.api.IsProducerPaused ("producer") or in
                          \* s.api.GetDBSize ("dbsize")

(***************************************************************************)
(* Construction of the plugin.                                             *)
(***************************************************************************)
VARIABLES
    oneBlockSuffix,       \* the oneBlockSuffix argument of NewMindReaderPlugin
    construction          \* what NewMindReaderPlugin returned and created

avars == <<archiver, io, scenario, script, step, passed, last>>

pvars == <<terminating, shutdownErr, rootCtx, lines, linesSt, consoleReader,
           consumeReadFlowDone, blocks, blocksSt, stopBlock, blockStreamServer,
           launchPc, ingestPc, ingestBlk, consumePc, consumeBlk, stopPc, logPc,
           goShutdown, archiverShutdown, archiverTerminated, nextNum, logCalls,
           readLog, sentLog, storeLog, pushLog, storeActive, queuedAtStop,
           sendWaited, panicked, version, startBlock, dropBlocks, fatalAt,
           headBlockUpdateFunc, headLog, storeErr, callErr>>

ovars == <<version, startBlock, dropBlocks, fatalAt>>

hvars == <<headBlockUpdateFunc, headLog>>

mvars == <<getInfoFailureCount, readinessProbe, readinessMaxLatency,
           monitorHeadBlock, lastHeadBlockTime, lastBlockSeen,
           headBlockNumber, lastDbSizeTime, isBlockProducer, monitorLast,
           monitorPc>>

cvars == <<oneBlockSuffix, construction>>

vars == <<pvars, avars, mvars, cvars>>

GoKinds == {"stop", "store", "push"}

\* A block of the model: the Console Reader numbers them 1, 2, 3, ...
NoBlock == 0

(***************************************************************************)
(* The supervisor's Monitor: one iteration of its loop is one step.        *)
(***************************************************************************)
\* Consecutive GetInfo failures the count is compared with.
ReadinessFailureThreshold == 5
\* The 30 s between two GetDBSize queries, in sleeps of 5 s.
DbSizePeriod == 6
\* The count of consecutive failures the model follows.
MaxFailureCount == 7
\* The readiness max latency used when one is configured.
MaxLatency == 2
\* The oldest head block a GetInfo answer carries.
MaxAge == 3
\* The highest head block number a GetInfo answer carries.
MaxHead == 1
\* Sleeps of 5 s that one iteration may last.
MaxElapsed == 2

MonitorQueries == {"GetInfo", "IsProducerPaused", "GetDBSize"}

\* The iteration record before the first iteration.
NoIteration ==
    [kind |-> "none", age |-> -1, probe |-> FALSE, count |-> 0,
     queried |-> {}]

\* The supervisor as constructed, before Monitor's first iteration.
MonitorInit ==
    /\ getInfoFailureCount = 0
    /\ readinessProbe = FALSE
    /\ lastHeadBlockTime = -1
    /\ lastBlockSeen = 0
    /\ headBlockNumber = 0
    /\ lastDbSizeTime = -1
    /\ isBlockProducer = "unset"
    /\ monitorLast = NoIteration
    /\ monitorPc = "sleep"

\* time.Now() - lastDbSizeTime after d more sleeps; the zero time stays.
Elapse(t, d) ==
    IF t = -1 THEN -1
    ELSE IF t + d > DbSizePeriod + 1 THEN DbSizePeriod + 1 ELSE t + d

\* A setReadinessProbeOn that flips the probe instead of setting it.
setReadinessProbeOnFlip(probe) == ~probe

\* s.readinessProbe.CAS(false, true)
setReadinessProbeOn(probe) == IF probe = FALSE THEN TRUE ELSE probe

\* s.readinessProbe.CAS(true, false)
setReadinessProbeOff(probe) == IF probe = TRUE THEN FALSE ELSE probe

\* The readiness test of a successful iteration, with <= for <.
ReadyAtAgeInclusive(age) ==
    readinessMaxLatency = 0 \/ age <= readinessMaxLatency

\* ReadinessMaxLatency == 0 || time.Since(lastHeadBlockTime) < ReadinessMaxLatency
ReadyAtAge(age) ==
    readinessMaxLatency = 0 \/ age < readinessMaxLatency

\* The failure test of a failed iteration, with >= for >.
TooManyFailuresInclusive(count) == count >= ReadinessFailureThreshold

\* getInfoFailureCount > 5
TooManyFailures(count) == count > ReadinessFailureThreshold

\* lastDbSizeTime.IsZero() || time.Now().Sub(lastDbSizeTime).Seconds() > 30.0
DbSizeDue(t) == t = -1 \/ t > DbSizePeriod

\* An iteration that finds the node not running: the count is reset and
\* the loop continues.
MonitorNotRunning ==
    /\ scenario = "monitor" /\ monitorPc = "sleep"
    /\ \E d \in 1..MaxElapsed : lastDbSizeTime' = Elapse(lastDbSizeTime, d)
    /\ getInfoFailureCount' = 0
    /\ monitorLast' = [kind |-> "notRunning", age |-> -1,
                       probe |-> readinessProbe,
                       count |-> getInfoFailureCount, queried |-> {}]
    /\ UNCHANGED <<readinessProbe, readinessMaxLatency, monitorHeadBlock,
                   lastHeadBlockTime, lastBlockSeen, headBlockNumber,
                   isBlockProducer, monitorPc, pvars, avars, cvars>>

\* An iteration whose GetInfo fails: the count goes up, and readiness is
\* cleared once it is over the threshold.
MonitorGetInfoFailed ==
    /\ scenario = "monitor" /\ monitorPc = "sleep"
    /\ getInfoFailureCount < MaxFailureCount
    /\ \E d \in 1..MaxElapsed : lastDbSizeTime' = Elapse(lastDbSizeTime, d)
    /\ getInfoFailureCount' = getInfoFailureCount + 1
    /\ readinessProbe' = IF TooManyFailures(getInfoFailureCount + 1)
                         THEN setReadinessProbeOff(readinessProbe)
                         ELSE readinessProbe
    /\ monitorLast' = [kind |-> "failed", age |-> -1,
                       probe |-> readinessProbe,
                       count |-> getInfoFailureCount,
                       queried |-> {"GetInfo"}]
    /\ UNCHANGED <<readinessMaxLatency, monitorHeadBlock, lastHeadBlockTime,
                   lastBlockSeen, headBlockNumber, isBlockProducer, monitorPc,
                   pvars, avars, cvars>>

\* Where Monitor waits next once the producer has been dealt with: in
\* s.api.GetDBSize when the DB size is due, else in the next time.Sleep.
AfterProducer(t) == IF DbSizeDue(t) THEN "dbsize" ELSE "sleep"

\* An iteration whose GetInfo succeeds, with a head block of number num
\* and of the given age: the count is reset, the head block kept and the
\* readiness set when the head is recent enough; then the producer is
\* polled when the node is an active producer, else the DB size queried
\* when due: Monitor waits in the call it has made.
MonitorGetInfoOk ==
    /\ scenario = "monitor" /\ monitorPc = "sleep"
    /\ \E num \in 1..MaxHead, age \in 0..MaxAge, d \in 1..MaxElapsed,
          activeProducer \in BOOLEAN :
          /\ getInfoFailureCount' = 0
          /\ lastBlockSeen' = num
          /\ lastHeadBlockTime' = age
          /\ headBlockNumber' = IF monitorHeadBlock THEN num
                                ELSE headBlockNumber
          /\ readinessProbe' = IF ReadyAtAge(age)
                               THEN setReadinessProbeOn(readinessProbe)
                               ELSE readinessProbe
          /\ lastDbSizeTime' = Elapse(lastDbSizeTime, d)
          /\ monitorPc' = IF activeProducer THEN "producer"
                          ELSE AfterProducer(Elapse(lastDbSizeTime, d))
          /\ monitorLast' =
                [kind |-> "ok", age |-> age, probe |-> readinessProbe,
                 count |-> getInfoFailureCount,
                 queried |-> {"GetInfo"}
                    \cup (IF activeProducer THEN {"IsProducerPaused"}
                          ELSE IF DbSizeDue(Elapse(lastDbSizeTime, d))
                          THEN {"GetDBSize"} ELSE {})]
    /\ UNCHANGED <<readinessMaxLatency, monitorHeadBlock, isBlockProducer,
                   pvars, avars, cvars>>

\* s.api.IsProducerPaused returns: the block producer metric is set unless
\* the call failed; then the DB size is queried when due.
MonitorProducerPaused ==
    /\ scenario = "monitor" /\ monitorPc = "producer"
    /\ \E producer \in {"paused", "running", "error"} :
          isBlockProducer' = IF producer = "error" THEN isBlockProducer
                             ELSE producer
    /\ monitorPc' = AfterProducer(lastDbSizeTime)
    /\ monitorLast' =
          [monitorLast EXCEPT !.queried =
              @ \cup (IF DbSizeDue(lastDbSizeTime) THEN {"GetDBSize"}
                      ELSE {})]
    /\ UNCHANGED <<getInfoFailureCount, readinessProbe, readinessMaxLatency,
                   monitorHeadBlock, lastHeadBlockTime, lastBlockSeen,
                   headBlockNumber, lastDbSizeTime, pvars, avars, cvars>>

\* s.api.GetDBSize returns: on an error the loop continues, else
\* lastDbSizeTime = time.Now() and the DB size metrics are set.
MonitorGetDBSize ==
    /\ scenario = "monitor" /\ monitorPc = "dbsize"
    /\ \E dbSizeErr \in BOOLEAN :
          lastDbSizeTime' = IF dbSizeErr THEN lastDbSizeTime ELSE 0
    /\ monitorPc' = "sleep"
    /\ UNCHANGED <<getInfoFailureCount, readinessProbe, readinessMaxLatency,
                   monitorHeadBlock, lastHeadBlockTime, lastBlockSeen,
                   headBlockNumber, isBlockProducer, monitorLast, pvars,
                   avars, cvars>>

(***************************************************************************)
(* Blocks as the Archiver sees them: bundle.OneBlockFile with the block's  *)
(* age, time.Since(block.Time()), at the time of the storeBlock call.      *)
(***************************************************************************)
(* Construction of the plugin: NewMindReaderPlugin.  A suffix is a         *)
(* sequence of characters; the characters stand for the classes the        *)
(* regular expression tells apart.                                         *)
(***************************************************************************)
\* The longest one-block suffix tried.
MaxSuffixLen == 3

\* \w of Go's regexp: the ASCII letters, digits and the underscore.
WordChars == {"a", "Z", "7", "_"}

\* Characters tried: \w, the dash, and characters of neither class (a
\* dot, a slash, a space, a line feed, a letter outside ASCII).
SuffixChars == WordChars \cup {"-", ".", "/", " ", "LF", "e-acute"}

RECURSIVE SuffixesOfLen(_)
SuffixesOfLen(n) ==
    IF n = 0 THEN {<<>>}
    ELSE {Append(q, c) : q \in SuffixesOfLen(n - 1), c \in SuffixChars}

Suffixes == UNION {SuffixesOfLen(n) : n \in 0..MaxSuffixLen}

\* A match that takes the dash for an invalid character.
MatchStringNoDash(suffix) ==
    /\ Len(suffix) >= 1
    /\ \A i \in 1..Len(suffix) : suffix[i] \in WordChars

\* oneblockSuffixRegexp.MatchString(suffix), for ^[\w\-]+$: one character
\* or more, each of \w or a dash, up to the end of the text.
MatchString(suffix) ==
    /\ Len(suffix) >= 1
    /\ \A i \in 1..Len(suffix) : suffix[i] \in WordChars \cup {"-"}

\* validateOneBlockSuffix of mindreader.go: "ok" or the error.
validateOneBlockSuffix(suffix) ==
    IF suffix = <<>> THEN "oneblock_suffix cannot be empty"
    ELSE IF ~MatchString(suffix)
         THEN "oneblock_suffix contains invalid characters"
         ELSE "ok"

\* validateOneBlockSuffix of the previous version: "ok" or the error.
validateOneBlockSuffixPrev(suffix) ==
    IF suffix # <<>> /\ ~MatchString(suffix)
    THEN "oneblock_suffix contains invalid characters"
    ELSE "ok"

\* No construction attempted yet.
NotConstructed ==
    [result |-> "none", err |-> "none", workingDirectory |-> FALSE,
     stores |-> FALSE]

\* The plugin the other specifications start from: constructed, with a
\* valid suffix.
Constructed ==
    [result |-> "plugin", err |-> "none", workingDirectory |-> TRUE,
     stores |-> TRUE]

\* The outcome of a construction whose suffix validation gave v, whose
\* os.MkdirAll did or did not succeed, and whose stores could or could
\* not be made.
ConstructionOutcome(v, mkdirOk, storesOk) ==
    IF v # "ok"
    THEN [result |-> "error", err |-> v, workingDirectory |-> FALSE,
          stores |-> FALSE]
    ELSE IF ~mkdirOk
    THEN [result |-> "error", err |-> "create working directory",
          workingDirectory |-> FALSE, stores |-> FALSE]
    ELSE IF ~storesOk
    THEN [result |-> "error", err |-> "new store",
          workingDirectory |-> TRUE, stores |-> FALSE]
    ELSE Constructed

\* NewMindReaderPlugin of mindreader.go.
NewMindReaderPlugin ==
    /\ version = "current" /\ construction.result = "none"
    /\ \E mkdirOk \in BOOLEAN, storesOk \in BOOLEAN :
          construction' =
             ConstructionOutcome(validateOneBlockSuffix(oneBlockSuffix),
                                 mkdirOk, storesOk)
    /\ UNCHANGED <<oneBlockSuffix, pvars, avars, mvars>>

\* NewMindReaderPlugin of the previous version.
NewMindReaderPluginPrev ==
    /\ version = "previous" /\ construction.result = "none"
    /\ \E mkdirOk \in BOOLEAN, storesOk \in BOOLEAN :
          construction' =
             ConstructionOutcome(validateOneBlockSuffixPrev(oneBlockSuffix),
                                 mkdirOk, storesOk)
    /\ UNCHANGED <<oneBlockSuffix, pvars, avars, mvars>>

(***************************************************************************)
\* time.Hour, the unit of the ages below.
Hour == 1
Day == 24 * Hour
\* Age of a block stamped now.
JustNow == 0
\* Age of a block stamped 20210728T105016.
Since2021 == 5 * 365 * Day
\* Age of a block stamped 20000728T105016.
Since2000 == Since2021 + 21 * 365 * Day
\* time.Since(time.Date(2000, 1, 1, 1, 1, 1, 1, time.UTC)).
superLongTimeAgo == Since2000 + 208 * Day
\* math.MaxUint64, as far as TLC's integers go: above every block number.
MathMaxUint64 == 2147483647
\* The bundle size NewMindReaderPlugin passes to NewArchiver.
PluginBundleSize == 100

\* bundle.MustNewOneBlockFile(name) for the name
\* <num>-<time>-<id>a-<prev>a-<lib>-suffix, and oneBlockFileToBlock of it.
MustNewOneBlockFile(num, age, id, prev) ==
    [num |-> num, age |-> age, id |-> id, prev |-> prev]

FileIds(files) == {f.id : f \in files}

\* A set of files as a list, by num ascending, ties by id.
RECURSIVE SortFiles(_)
SortFiles(S) ==
    IF S = {} THEN <<>>
    ELSE LET m == CHOOSE f \in S :
                     \A g \in S : f.num < g.num \/ (f.num = g.num /\ f.id <= g.id)
         IN <<m>> \o SortFiles(S \ {m})

SeqToSet(q) == {q[i] : i \in 1..Len(q)}

(***************************************************************************)
(* The Bundler: the files accepted and not yet committed, and the          *)
(* exclusive upper boundary of the open bundle.                            *)
(***************************************************************************)
NoBundler == [open |-> FALSE, limit |-> 0, files |-> {}]

\* bundle.NewBundler(size, firstExclusiveHighestBlockLimit).
NewBundler(limit) == [open |-> TRUE, limit |-> limit, files |-> {}]

\* add(file): insert into the accepted set.
AddOneBlockFile(b, f) == [b EXCEPT !.files = @ \cup {f}]

\* A lower bound that lets every block in.
BundleInclusiveLowerBlockZero(b, size) == 0

\* The inclusive lower bound of the open bundle.
BundleInclusiveLowerBlock(b, size) == b.limit - size

\* A chain that takes every accepted file, linked or not.
ChainToAll(files, tip) == files

\* The accepted files chained by previous_id that end at tip.
RECURSIVE ChainTo(_, _)
ChainTo(files, tip) ==
    LET parents == {g \in files \ {tip} : g.id = tip.prev}
    IN  IF parents = {} THEN {tip}
        ELSE {tip} \cup ChainTo(files \ {tip}, CHOOSE g \in parents : TRUE)

\* The accepted files at or beyond the boundary.
Crossing(b) == {f \in b.files : f.num >= b.limit}

\* A bundle is complete once a block at or beyond its boundary is accepted.
BundleCompleted(b) == Crossing(b) # {}

\* The files of the completed bundle: the chain that ends at the first
\* block at or beyond the boundary, below the boundary, in num order.
ToBundle(b) ==
    LET tip == Head(SortFiles(Crossing(b)))
    IN  SortFiles({f \in ChainTo(b.files, tip) : f.num < b.limit})

\* commit: the boundary advances by size and the range below it is drained
\* from the accepted set (the merged files and the forks beside them).
Commit(b, size) ==
    [b EXCEPT !.limit = @ + size, !.files = {f \in @ : f.num >= b.limit}]

(***************************************************************************)
(* TestArchiverIO: the ArchiverIO of the tests. Every call is counted as   *)
(* the tests' callbacks count it, and moves files between the lanes.       *)
(***************************************************************************)
NewTestArchiverIO(existing) ==
    [ storedMergableOneBlockFiles   |-> 0,
      storedUploadableOneBlockfiles |-> 0,
      storedMergedFiles             |-> 0,
      deletedFiles                  |-> 0,
      downloadedFiles               |-> 0,
      walkCalls                     |-> 0,
      walk       |-> existing,            \* what the mergeable walk returns
      mergeable  |-> FileIds(existing),   \* ids in the mergeable lane
      uploadable |-> {},                  \* ids in the uploadable one-block lane
      merged     |-> <<>> ]               \* the merged bundles written

\* StoreOneBlockFile mutated: the write is not done.
StoreOneBlockFileLost(tio, f) == tio

\* StoreOneBlockFile mutated: the write is counted twice.
StoreOneBlockFileTwice(tio, f) ==
    [tio EXCEPT !.storedUploadableOneBlockfiles = @ + 2,
                !.uploadable = @ \cup {f.id}]

\* StoreOneBlockFile: a write to the uploadable one-block lane.
StoreOneBlockFile(tio, f) ==
    [tio EXCEPT !.storedUploadableOneBlockfiles = @ + 1,
                !.uploadable = @ \cup {f.id}]

\* StoreMergeableOneBlockFile mutated: it writes to the uploadable lane.
StoreMergeableOneBlockFileWrongLane(tio, f) ==
    [tio EXCEPT !.storedUploadableOneBlockfiles = @ + 1,
                !.uploadable = @ \cup {f.id}]

\* StoreMergeableOneBlockFile: a write to the mergeable lane.
StoreMergeableOneBlockFile(tio, f) ==
    [tio EXCEPT !.storedMergableOneBlockFiles = @ + 1,
                !.mergeable = @ \cup {f.id}]

\* MergeAndStore mutated: the bundle is written twice.
MergeAndStoreTwice(tio, lower, files) ==
    [tio EXCEPT !.storedMergedFiles = @ + 2,
                !.merged = @ \o << [lower |-> lower, files |-> files],
                                   [lower |-> lower, files |-> files] >>]

\* MergeAndStore mutated: the bundle is written one number too high.
MergeAndStoreShifted(tio, lower, files) ==
    [tio EXCEPT !.storedMergedFiles = @ + 1,
                !.merged = Append(@, [lower |-> lower + 1, files |-> files])]

\* MergeAndStore(inclusiveLowerBlock, oneBlockFiles): one merged bundle.
MergeAndStore(tio, lower, files) ==
    [tio EXCEPT !.storedMergedFiles = @ + 1,
                !.merged = Append(@, [lower |-> lower, files |-> files])]

\* Delete mutated: only the first file is deleted.
DeleteFirstOnly(tio, files) ==
    [tio EXCEPT !.deletedFiles = @ + (IF Len(files) > 0 THEN 1 ELSE 0),
                !.mergeable = @ \ (IF Len(files) > 0 THEN {files[1].id} ELSE {})]

\* Delete(oneBlockFiles): the files leave the mergeable lane.
Delete(tio, files) ==
    [tio EXCEPT !.deletedFiles = @ + Len(files),
                !.mergeable = @ \ FileIds(SeqToSet(files))]

\* DownloadOneBlockFile mutated: the file is not fetched.
DownloadOneBlockFileSkipped(tio, f) == tio

\* DownloadOneBlockFile(file): the bytes of a file of the mergeable lane.
DownloadOneBlockFile(tio, f) ==
    [tio EXCEPT !.downloadedFiles = @ + 1]

\* WalkMergeableOneBlockFiles(): the files the mergeable lane holds at start.
WalkMergeableOneBlockFiles(tio) ==
    [tio EXCEPT !.walkCalls = @ + 1]

(***************************************************************************)
(* The Archiver.                                                           *)
(***************************************************************************)
\* NewArchiver(bundleSize, io, batchMode, tracker, mergeThresholdBlockAge,
\* logger): no bundler yet, and the Archiver starts out merging.
NewArchiver(bundleSize, batchMode, mergeThresholdBlockAge) ==
    [ bundleSize             |-> bundleSize,
      batchMode              |-> batchMode,
      mergeThresholdBlockAge |-> mergeThresholdBlockAge,
      currentlyMerging       |-> TRUE,
      bundler                |-> NoBundler ]

\* A merge decision taken on the block's age alone.
shouldMergeByAge(a, f) ==
    \/ a.batchMode
    \/ f.age > a.mergeThresholdBlockAge

\* Whether the block goes through the mergeable lane: always in batch mode;
\* else while the Archiver is still merging and the block is older than the
\* threshold.
shouldMerge(a, f) ==
    \/ a.batchMode
    \/ a.currentlyMerging /\ f.age > a.mergeThresholdBlockAge

\* currentlyMerging after the decision: outside batch mode the first block
\* that is not to be merged ends the merging state for good.
currentlyMergingAfter(a, f) ==
    IF a.batchMode THEN a.currentlyMerging ELSE shouldMerge(a, f)

\* Leaving the merging state: every file the bundler holds is downloaded
\* and written to the uploadable one-block lane.
RECURSIVE UploadHeldFiles(_, _)
UploadHeldFiles(tio, files) ==
    IF files = <<>> THEN tio
    ELSE UploadHeldFiles(
             StoreOneBlockFile(DownloadOneBlockFile(tio, Head(files)), Head(files)),
             Tail(files))

\* The bundler a mergeable block goes to: the open one, or a new one whose
\* lower bound is the block's num rounded down to a multiple of the size,
\* seeded in batch mode from the walk of the mergeable lane.
OpenBundler(a, tio, f) ==
    IF a.bundler.open
    THEN [bundler |-> a.bundler, io |-> tio]
    ELSE LET limit == ((f.num \div a.bundleSize) * a.bundleSize) + a.bundleSize
             fresh == NewBundler(limit)
         IN  IF a.batchMode
             THEN [bundler |-> [fresh EXCEPT !.files = tio.walk],
                   io      |-> WalkMergeableOneBlockFiles(tio)]
             ELSE [bundler |-> fresh, io |-> tio]

\* No storeBlock call was made yet.
NoCall(a, tio) ==
    [called |-> FALSE, f |-> MustNewOneBlockFile(0, 0, 0, 0), archiver |-> a, io |-> tio]

\* storeBlock(ctx, oneBlockFile, block): the Archiver and its IO after it.
\* In batch mode a block to merge always goes to the mergeable lane; outside
\* it a block to merge below the open bundle's lower bound is left out.
storeBlock(a, tio, f) ==
    IF ~shouldMerge(a, f)
    THEN LET held == IF a.bundler.open THEN SortFiles(a.bundler.files) ELSE <<>>
         IN  [archiver |-> [a EXCEPT !.bundler = NoBundler,
                                     !.currentlyMerging = currentlyMergingAfter(a, f)],
              io       |-> StoreOneBlockFile(UploadHeldFiles(tio, held), f)]
    ELSE LET opened == OpenBundler(a, tio, f)
             b0  == opened.bundler
             io0 == opened.io
         IN  IF ~a.batchMode /\ f.num < BundleInclusiveLowerBlock(b0, a.bundleSize)
             THEN [archiver |-> [a EXCEPT !.bundler = b0], io |-> io0]
             ELSE LET b1  == AddOneBlockFile(b0, f)
                      io1 == StoreMergeableOneBlockFile(io0, f)
                  IN  IF ~BundleCompleted(b1)
                      THEN [archiver |-> [a EXCEPT !.bundler = b1], io |-> io1]
                      ELSE LET files == ToBundle(b1)
                               lower == BundleInclusiveLowerBlock(b1, a.bundleSize)
                               io2   == Delete(MergeAndStore(io1, lower, files), files)
                           IN  [archiver |-> [a EXCEPT !.bundler = Commit(b1, a.bundleSize)],
                                io       |-> io2]

(***************************************************************************)
(* Go channel semantics.                                                   *)
(***************************************************************************)
\* `ch <- v` can proceed on an open channel with room in its buffer.
ChanCanSend(buf, st, cap) == st = "open" /\ Len(buf) < cap

\* The buffer after `ch <- v`: mutated by a stack-like queue.
ChanAfterSendLIFO(buf, v) == <<v>> \o buf

\* The buffer after `ch <- v`: values are received in the order sent.
ChanAfterSend(buf, v) == Append(buf, v)

\* `v, ok := <-ch` mutated: a closed channel reports !ok at once.
RecvOkClosedFirst(buf, st) == st # "closed" /\ Len(buf) > 0

\* `v, ok := <-ch` yields ok while buffered values remain, closed or not.
RecvOk(buf, st) == Len(buf) > 0

\* `<-ch` on a closed and drained channel returns at once with !ok.
RecvClosed(buf, st) == Len(buf) = 0 /\ st = "closed"

(***************************************************************************)
(* shutter.Shutter: Shutdown(err) and IsTerminating().                     *)
(***************************************************************************)
IsTerminating == terminating

\* The cancel() that Launch registers with OnTerminating: it cancels the
\* root context, when Launch has made one and registered the callback.
cancel == IF rootCtx = "live" THEN "cancelled" ELSE rootCtx

\* Shutdown(err): the first call flips the flag, keeps err and runs the
\* OnTerminating callback (cancel of the root context); later calls return.
Shutdown(err) ==
    IF terminating
    THEN UNCHANGED <<terminating, shutdownErr, rootCtx>>
    ELSE /\ terminating' = TRUE
         /\ shutdownErr' = err
         /\ rootCtx' = cancel

Alive == panicked = "no"

(***************************************************************************)
(* Construction: newMindReaderPlugin.                                      *)
(***************************************************************************)
PluginInit ==
    /\ terminating = FALSE
    /\ shutdownErr = "unset"
    /\ rootCtx = "none"
    /\ lines = <<>>
    /\ linesSt = "nil"
    /\ consoleReader = "nil"
    /\ consumeReadFlowDone = "nil"
    /\ blocks = <<>>
    /\ blocksSt = "nil"
    /\ stopBlock \in {0, StopBlockNum}
    /\ blockStreamServer \in BOOLEAN
    /\ launchPc = "init"
    /\ ingestPc = "idle"
    /\ ingestBlk = NoBlock
    /\ consumePc = "idle"
    /\ consumeBlk = NoBlock
    /\ stopPc = [s \in StopCallers |-> "idle"]
    /\ logPc = "idle"
    /\ goShutdown = [k \in GoKinds |-> 0]
    /\ archiverShutdown = FALSE
    /\ archiverTerminated = FALSE
    /\ nextNum = 1
    /\ logCalls = 0
    /\ readLog = <<>>
    /\ sentLog = <<>>
    /\ storeLog = <<>>
    /\ pushLog = <<>>
    /\ storeActive = 0
    /\ queuedAtStop = -1
    /\ sendWaited = FALSE
    /\ panicked = "no"
    /\ dropBlocks = FALSE
    /\ fatalAt = -1
    /\ headLog = <<>>
    /\ storeErr = FALSE
    /\ callErr = "none"

\* The plugin as constructed; its Archiver is the one NewMindReaderPlugin
\* makes, and stores nothing in this specification (StoreBlock is a call
\* that succeeds or fails).
Init ==
    /\ PluginInit
    /\ MonitorInit /\ readinessMaxLatency = 0 /\ monitorHeadBlock = FALSE
    /\ oneBlockSuffix = <<"a">> /\ construction = Constructed
    /\ version = "current"
    /\ startBlock = 0
    /\ headBlockUpdateFunc = TRUE
    /\ archiver = NewArchiver(PluginBundleSize, FALSE, Hour)
    /\ io = NewTestArchiverIO({})
    /\ scenario = "plugin"
    /\ script = <<>>
    /\ step = 0
    /\ passed = {}
    /\ last = NoCall(archiver, io)

(***************************************************************************)
(* Launch.                                                                 *)
(***************************************************************************)
\* A Launch that makes the root context and registers no cancel for it.
LaunchMakeChannelsNoCancel ==
    /\ Alive /\ launchPc = "init"
    /\ rootCtx' = "unhooked"
    /\ consumeReadFlowDone' = "open"
    /\ linesSt' = "open"
    /\ launchPc' = "factory"
    /\ UNCHANGED <<terminating, shutdownErr, lines, consoleReader, blocks,
                   blocksSt, stopBlock, blockStreamServer, ingestPc, ingestBlk,
                   consumePc, consumeBlk, stopPc, logPc, goShutdown,
                   archiverShutdown, archiverTerminated, nextNum, logCalls,
                   readLog, sentLog, storeLog, pushLog, storeActive,
                   queuedAtStop, sendWaited, panicked, avars, ovars, hvars, storeErr, callErr, mvars, cvars>>

\* Launch, up to p.lines = lines: the root context is made and its cancel
\* registered with OnTerminating, then the done channel and `lines` are
\* made.  What a registration made once the plugin is terminating does
\* is the shutter's business: the callback runs at once, or never.
LaunchMakeChannels ==
    /\ Alive /\ launchPc = "init"
    /\ rootCtx' \in IF terminating THEN {"live", "cancelled"} ELSE {"live"}
    /\ consumeReadFlowDone' = "open"
    /\ linesSt' = "open"
    /\ launchPc' = "factory"
    /\ UNCHANGED <<terminating, shutdownErr, lines, consoleReader, blocks,
                   blocksSt, stopBlock, blockStreamServer, ingestPc, ingestBlk,
                   consumePc, consumeBlk, stopPc, logPc, goShutdown,
                   archiverShutdown, archiverTerminated, nextNum, logCalls,
                   readLog, sentLog, storeLog, pushLog, storeActive,
                   queuedAtStop, sendWaited, panicked, avars, ovars, hvars, storeErr, callErr, mvars, cvars>>

\* Launch: consoleReaderFactory(lines); on error p.Shutdown(err), and the
\* (nil) reader is stored all the same.
LaunchFactory ==
    /\ Alive /\ launchPc = "factory"
    /\ \E ok \in BOOLEAN :
          IF ok
          THEN /\ consoleReader' = "set"
               /\ UNCHANGED <<terminating, shutdownErr, rootCtx>>
          ELSE /\ consoleReader' = "nil"
               /\ Shutdown("factory")
    /\ launchPc' = "start"
    /\ UNCHANGED <<lines, linesSt, consumeReadFlowDone, blocks, blocksSt,
                   stopBlock, blockStreamServer, ingestPc, ingestBlk,
                   consumePc, consumeBlk, stopPc, logPc, goShutdown,
                   archiverShutdown, archiverTerminated, nextNum, logCalls,
                   readLog, sentLog, storeLog, pushLog, storeActive,
                   queuedAtStop, sendWaited, panicked, avars, ovars, hvars, storeErr, callErr, mvars, cvars>>

\* Launch: p.archiver.Start(ctx); p.launch() makes `blocks` and starts the
\* consumer and the ingest goroutines.
launch ==
    /\ Alive /\ launchPc = "start"
    /\ blocksSt' = "open"
    /\ consumePc' = "recv"
    /\ ingestPc' = "read"
    /\ launchPc' = "done"
    /\ UNCHANGED <<terminating, shutdownErr, rootCtx, lines, linesSt, consoleReader,
                   consumeReadFlowDone, blocks, stopBlock, blockStreamServer,
                   ingestBlk, consumeBlk, stopPc, logPc, goShutdown,
                   archiverShutdown, archiverTerminated, nextNum, logCalls,
                   readLog, sentLog, storeLog, pushLog, storeActive,
                   queuedAtStop, sendWaited, panicked, avars, ovars, hvars, storeErr, callErr, mvars, cvars>>

(***************************************************************************)
(* The ingest goroutine: readOneMessage in a loop.                         *)
(***************************************************************************)
IngestFrameHook ==
    UNCHANGED <<linesSt, consoleReader, consumeReadFlowDone, stopBlock,
                blockStreamServer, launchPc, consumePc, consumeBlk, stopPc,
                logPc, archiverShutdown, archiverTerminated, logCalls,
                storeLog, pushLog, storeActive, queuedAtStop, avars, ovars,
                headBlockUpdateFunc, storeErr, callErr, mvars, cvars>>

\* What the ingest goroutine leaves alone where it does not call the hook.
IngestFrame == IngestFrameHook /\ UNCHANGED headLog

\* `if p.headBlockUpdateFunc != nil { p.headBlockUpdateFunc(num, ...) }`.
headBlockUpdate(num) ==
    headLog' = IF headBlockUpdateFunc THEN Append(headLog, num) ELSE headLog

\* p.consoleReader.ReadBlock() on the nil reader left by a failed factory.
ReadBlockNilReader ==
    /\ Alive /\ ingestPc = "read" /\ consoleReader = "nil"
    /\ panicked' = "nil console reader"
    /\ IngestFrame
    /\ UNCHANGED <<terminating, shutdownErr, rootCtx, lines, blocks, blocksSt,
                   ingestPc, ingestBlk, goShutdown, nextNum, readLog, sentLog,
                   sendWaited>>

\* ReadBlock consumes a line and returns the next block, which is given
\* to the head block update hook.
ReadBlockOk ==
    /\ version = "current"
    /\ Alive /\ ingestPc = "read" /\ consoleReader = "set"
    /\ Len(lines) > 0 /\ nextNum <= MaxBlocks
    /\ lines' = Tail(lines)
    /\ ingestBlk' = nextNum
    /\ nextNum' = nextNum + 1
    /\ readLog' = Append(readLog, nextNum)
    /\ headBlockUpdate(nextNum)
    /\ ingestPc' = "send"
    /\ IngestFrameHook
    /\ UNCHANGED <<terminating, shutdownErr, rootCtx, blocks, blocksSt, goShutdown,
                   sentLog, panicked, sendWaited>>

\* ReadBlock consumes a line that completes no block and keeps reading.
ReadBlockSkipLine ==
    /\ Alive /\ ingestPc = "read" /\ consoleReader = "set"
    /\ Len(lines) > 0
    /\ lines' = Tail(lines)
    /\ IngestFrame
    /\ UNCHANGED <<terminating, shutdownErr, rootCtx, blocks, blocksSt, ingestPc,
                   ingestBlk, goShutdown, nextNum, readLog, sentLog, panicked, sendWaited>>

\* ReadBlock fails on a line with an error other than io.EOF.
ReadBlockErr ==
    /\ Alive /\ ingestPc = "read" /\ consoleReader = "set"
    /\ Len(lines) > 0
    /\ lines' = Tail(lines)
    /\ ingestPc' = "shutdown"
    /\ IngestFrame
    /\ UNCHANGED <<terminating, shutdownErr, rootCtx, blocks, blocksSt, ingestBlk,
                   goShutdown, nextNum, readLog, sentLog, panicked, sendWaited>>

\* An end of stream handled as any other reader error.
ReadBlockEOFAsError ==
    /\ Alive /\ ingestPc = "read" /\ consoleReader = "set"
    /\ RecvClosed(lines, linesSt)
    /\ ingestPc' = "shutdown"
    /\ IngestFrame
    /\ UNCHANGED <<terminating, shutdownErr, rootCtx, lines, blocks, blocksSt,
                   ingestBlk, goShutdown, nextNum, readLog, sentLog, panicked, sendWaited>>

\* ReadBlock returns io.EOF: `lines` is closed and drained.
ReadBlockEOF ==
    /\ Alive /\ ingestPc = "read" /\ consoleReader = "set"
    /\ RecvClosed(lines, linesSt)
    /\ ingestPc' = "close"
    /\ IngestFrame
    /\ UNCHANGED <<terminating, shutdownErr, rootCtx, lines, blocks, blocksSt,
                   ingestBlk, goShutdown, nextNum, readLog, sentLog, panicked, sendWaited>>

\* readOneMessage: blocks <- block finds the channel full and waits.
IngestSendWait ==
    /\ Alive /\ ingestPc = "send" /\ ~sendWaited
    /\ ~ChanCanSend(blocks, blocksSt, ChannelCapacity)
    /\ sendWaited' = TRUE
    /\ IngestFrame
    /\ UNCHANGED <<terminating, shutdownErr, rootCtx, lines, blocks, blocksSt,
                   ingestPc, ingestBlk, goShutdown, nextNum, readLog, sentLog,
                   panicked>>

\* readOneMessage: blocks <- block, once the channel has room.
IngestSend ==
    /\ Alive /\ ingestPc = "send"
    /\ ChanCanSend(blocks, blocksSt, ChannelCapacity)
    /\ blocks' = ChanAfterSend(blocks, ingestBlk)
    /\ sentLog' = Append(sentLog, ingestBlk)
    /\ ingestPc' = "stopcheck"
    /\ IngestFrame
    /\ UNCHANGED <<terminating, shutdownErr, rootCtx, lines, blocksSt, ingestBlk,
                   goShutdown, nextNum, readLog, panicked, sendWaited>>

\* A stop block test that lets the stop block itself through.
IngestStopCheckAfterStopBlock ==
    /\ Alive /\ ingestPc = "stopcheck"
    /\ IF stopBlock # 0 /\ ingestBlk > stopBlock /\ ~IsTerminating
       THEN goShutdown' = [goShutdown EXCEPT !["stop"] = @ + 1]
       ELSE UNCHANGED goShutdown
    /\ ingestBlk' = NoBlock
    /\ ingestPc' = "read"
    /\ IngestFrame
    /\ UNCHANGED <<terminating, shutdownErr, rootCtx, lines, blocks, blocksSt, nextNum,
                   readLog, sentLog, panicked, sendWaited>>

\* readOneMessage: the stop block test, `go p.Shutdown(nil)`.
IngestStopCheck ==
    /\ Alive /\ ingestPc = "stopcheck"
    /\ IF stopBlock # 0 /\ ingestBlk >= stopBlock /\ ~IsTerminating
       THEN goShutdown' = [goShutdown EXCEPT !["stop"] = @ + 1]
       ELSE UNCHANGED goShutdown
    /\ ingestBlk' = NoBlock
    /\ ingestPc' = "read"
    /\ IngestFrame
    /\ UNCHANGED <<terminating, shutdownErr, rootCtx, lines, blocks, blocksSt, nextNum,
                   readLog, sentLog, panicked, sendWaited>>

\* launch(): p.Shutdown(err) after a reader error other than io.EOF.
IngestErrShutdown ==
    /\ version = "current"
    /\ Alive /\ ingestPc = "shutdown"
    /\ Shutdown("reader")
    /\ ingestPc' = "drain"
    /\ IngestFrame
    /\ UNCHANGED <<lines, blocks, blocksSt, ingestBlk, goShutdown, nextNum,
                   readLog, sentLog, panicked, sendWaited>>

\* drainMessages: `for line := range p.lines`, until closed and drained.
drainMessages ==
    /\ Alive /\ ingestPc = "drain"
    /\ IF RecvOk(lines, linesSt)
       THEN /\ lines' = Tail(lines)
            /\ UNCHANGED ingestPc
       ELSE /\ RecvClosed(lines, linesSt)
            /\ ingestPc' = "close"
            /\ UNCHANGED lines
    /\ IngestFrame
    /\ UNCHANGED <<terminating, shutdownErr, rootCtx, blocks, blocksSt, ingestBlk,
                   goShutdown, nextNum, readLog, sentLog, panicked, sendWaited>>

\* launch(): close(blocks); return.
IngestClose ==
    /\ Alive /\ ingestPc = "close"
    /\ blocksSt' = "closed"
    /\ ingestPc' = "exited"
    /\ IngestFrame
    /\ UNCHANGED <<terminating, shutdownErr, rootCtx, lines, blocks, ingestBlk,
                   goShutdown, nextNum, readLog, sentLog, panicked, sendWaited>>

(***************************************************************************)
(* The consumer goroutine: consumeReadFlow.                                *)
(***************************************************************************)
ConsumeFrameErr ==
    UNCHANGED <<lines, linesSt, consoleReader, blocksSt, stopBlock,
                blockStreamServer, launchPc, ingestPc, ingestBlk, stopPc,
                logPc, nextNum, logCalls, readLog, sentLog, queuedAtStop,
                sendWaited, panicked, terminating, shutdownErr, rootCtx, avars, ovars,
                hvars, mvars, cvars>>

\* What consumeReadFlow leaves alone where it does not assign `err`.
ConsumeFrame == ConsumeFrameErr /\ UNCHANGED <<storeErr, callErr>>

\* `block, ok := <-blocks` opens an iteration: its `err` is not assigned yet.
ConsumeFrameRecv == ConsumeFrameErr /\ UNCHANGED storeErr /\ callErr' = "none"

\* A receive that takes the block to the block stream server first.
ConsumeRecvPushFirst ==
    /\ version = "current"
    /\ Alive /\ consumePc = "recv"
    /\ RecvOk(blocks, blocksSt)
    /\ consumeBlk' = Head(blocks)
    /\ blocks' = Tail(blocks)
    /\ consumePc' = "push"
    /\ ConsumeFrameRecv
    /\ UNCHANGED <<consumeReadFlowDone, goShutdown, archiverShutdown,
                   archiverTerminated, storeLog, pushLog, storeActive>>

\* block, ok := <-blocks with ok: a block is received.
ConsumeRecv ==
    /\ version = "current"
    /\ Alive /\ consumePc = "recv"
    /\ RecvOk(blocks, blocksSt)
    /\ consumeBlk' = Head(blocks)
    /\ blocks' = Tail(blocks)
    /\ consumePc' = "store"
    /\ ConsumeFrameRecv
    /\ UNCHANGED <<consumeReadFlowDone, goShutdown, archiverShutdown,
                   archiverTerminated, storeLog, pushLog, storeActive>>

\* block, ok := <-blocks with !ok, mutated: the consumer returns at once,
\* without p.archiver.Shutdown(nil) and without the wait.
ConsumeClosedNoShutdown ==
    /\ Alive /\ consumePc = "recv"
    /\ ~RecvOk(blocks, blocksSt) /\ blocksSt = "closed"
    /\ consumeReadFlowDone' = "closed"
    /\ consumePc' = "exited"
    /\ ConsumeFrameRecv
    /\ UNCHANGED <<archiverShutdown, blocks, consumeBlk, goShutdown,
                   archiverTerminated, storeLog, pushLog, storeActive>>

\* block, ok := <-blocks with !ok: p.archiver.Shutdown(nil).
ConsumeClosed ==
    /\ Alive /\ consumePc = "recv"
    /\ ~RecvOk(blocks, blocksSt) /\ blocksSt = "closed"
    /\ archiverShutdown' = TRUE
    /\ consumePc' = "waitTerminated"
    /\ ConsumeFrameRecv
    /\ UNCHANGED <<consumeReadFlowDone, blocks, consumeBlk, goShutdown,
                   archiverTerminated, storeLog, pushLog, storeActive>>

\* The Archiver terminates some time after its Shutdown.
ArchiverTerminates ==
    /\ Alive /\ archiverShutdown /\ ~archiverTerminated
    /\ archiverTerminated' = TRUE
    /\ ConsumeFrame
    /\ UNCHANGED <<consumeReadFlowDone, blocks, consumePc, consumeBlk,
                   goShutdown, archiverShutdown, storeLog, pushLog,
                   storeActive>>

\* <-p.archiver.Terminated(); return, with the deferred
\* close(p.consumeReadFlowDone).
ConsumeExit ==
    /\ Alive /\ consumePc = "waitTerminated" /\ archiverTerminated
    /\ consumeReadFlowDone' = "closed"
    /\ consumePc' = "exited"
    /\ ConsumeFrame
    /\ UNCHANGED <<blocks, consumeBlk, goShutdown, archiverShutdown,
                   archiverTerminated, storeLog, pushLog, storeActive>>

\* p.archiver.StoreBlock(ctx, block) is entered.
StoreBlockCall ==
    /\ Alive /\ consumePc = "store"
    /\ storeLog' = Append(storeLog, consumeBlk)
    /\ storeActive' = storeActive + 1
    /\ consumePc' = "storing"
    /\ ConsumeFrame
    /\ UNCHANGED <<consumeReadFlowDone, blocks, consumeBlk, goShutdown,
                   archiverShutdown, archiverTerminated, pushLog>>

\* A StoreBlock return that goes on to the block stream server whatever
\* the call returned, and requests no shutdown.
StoreBlockReturnIgnoresError ==
    /\ version = "current"
    /\ Alive /\ consumePc = "storing"
    /\ storeActive' = storeActive - 1
    /\ \E err \in BOOLEAN :
          /\ consumePc' = "push"
          /\ storeErr' = (err /\ blockStreamServer)
          /\ callErr' = IF err THEN "store" ELSE "none"
          /\ UNCHANGED <<goShutdown, consumeBlk>>
    /\ ConsumeFrameErr
    /\ UNCHANGED <<consumeReadFlowDone, blocks, archiverShutdown,
                   archiverTerminated, storeLog, pushLog>>

\* StoreBlock returns; on an error while not terminating,
\* `go p.Shutdown(..)` and continue, else go on to the block stream server.
StoreBlockReturn ==
    /\ version = "current"
    /\ Alive /\ consumePc = "storing"
    /\ storeActive' = storeActive - 1
    /\ \E err \in BOOLEAN :
          IF err /\ ~IsTerminating
          THEN /\ goShutdown' = [goShutdown EXCEPT !["store"] = @ + 1]
               /\ consumePc' = "recv"
               /\ consumeBlk' = NoBlock
               /\ storeErr' = FALSE
               /\ callErr' = "store"
          ELSE /\ consumePc' = "push"
               /\ storeErr' = (err /\ blockStreamServer)
               /\ callErr' = IF err THEN "store" ELSE "none"
               /\ UNCHANGED <<goShutdown, consumeBlk>>
    /\ ConsumeFrameErr
    /\ UNCHANGED <<consumeReadFlowDone, blocks, archiverShutdown,
                   archiverTerminated, storeLog, pushLog>>

\* if p.blockStreamServer != nil { PushBlock(block) ... }; next iteration.
PushBlock ==
    /\ version = "current"
    /\ Alive /\ consumePc = "push"
    /\ IF blockStreamServer
       THEN /\ pushLog' = Append(pushLog, consumeBlk)
            /\ \E err \in BOOLEAN :
                  /\ callErr' = IF err THEN "push" ELSE "none"
                  /\ IF err /\ ~IsTerminating
                     THEN goShutdown' = [goShutdown EXCEPT !["push"] = @ + 1]
                     ELSE UNCHANGED goShutdown
       ELSE UNCHANGED <<pushLog, goShutdown, callErr>>
    /\ consumeBlk' = NoBlock
    /\ storeErr' = FALSE
    /\ consumePc' = "recv"
    /\ ConsumeFrameErr
    /\ UNCHANGED <<consumeReadFlowDone, blocks, archiverShutdown,
                   archiverTerminated, storeLog, storeActive>>

(***************************************************************************)
(* Shutdown requests.                                                      *)
(***************************************************************************)
ShutdownFrame ==
    UNCHANGED <<lines, linesSt, consoleReader, consumeReadFlowDone, blocks,
                blocksSt, stopBlock, blockStreamServer, launchPc, ingestPc,
                ingestBlk, consumePc, consumeBlk, logPc, archiverShutdown,
                archiverTerminated, nextNum, logCalls, readLog, sentLog,
                storeLog, pushLog, storeActive, sendWaited, panicked, avars, ovars, hvars, storeErr, callErr, mvars, cvars>>

\* A goroutine started by `go p.Shutdown(..)` runs.
GoShutdownRun ==
    /\ Alive
    /\ \E k \in GoKinds :
          /\ goShutdown[k] > 0
          /\ goShutdown' = [goShutdown EXCEPT ![k] = @ - 1]
          /\ Shutdown(k)
    /\ ShutdownFrame
    /\ UNCHANGED <<stopPc, queuedAtStop>>

\* The owner of the plugin calls Shutdown(err) itself.
ExternalShutdown ==
    /\ Alive /\ ~terminating
    /\ Shutdown("external")
    /\ ShutdownFrame
    /\ UNCHANGED <<stopPc, queuedAtStop, goShutdown>>

(***************************************************************************)
(* Stop.                                                                   *)
(***************************************************************************)
\* Stop is entered: `if p.lines == nil { return }`.
StopCall(s) ==
    /\ version = "current"
    /\ Alive /\ stopPc[s] = "idle"
    /\ IF linesSt = "nil"
       THEN /\ stopPc' = [stopPc EXCEPT ![s] = "returnedNotLaunched"]
            /\ UNCHANGED queuedAtStop
       ELSE /\ stopPc' = [stopPc EXCEPT ![s] = "shutdown"]
            /\ queuedAtStop' = Len(blocks)
    /\ ShutdownFrame
    /\ UNCHANGED <<terminating, shutdownErr, rootCtx, goShutdown>>

\* Stop: p.Shutdown(nil).
StopShutdown(s) ==
    /\ Alive /\ stopPc[s] = "shutdown"
    /\ Shutdown("nil")
    /\ stopPc' = [stopPc EXCEPT ![s] = "close"]
    /\ ShutdownFrame
    /\ UNCHANGED <<queuedAtStop, goShutdown>>

\* Stop: close(p.lines); closing a closed channel panics.
StopCloseLines(s) ==
    /\ Alive /\ stopPc[s] = "close"
    /\ IF linesSt = "closed"
       THEN /\ panicked' = "close of closed channel"
            /\ UNCHANGED <<linesSt, stopPc>>
       ELSE /\ linesSt' = "closed"
            /\ stopPc' = [stopPc EXCEPT ![s] = "wait"]
            /\ UNCHANGED panicked
    /\ UNCHANGED <<terminating, shutdownErr, rootCtx, lines, consoleReader,
                   consumeReadFlowDone, blocks, blocksSt, stopBlock,
                   blockStreamServer, launchPc, ingestPc, ingestBlk, consumePc,
                   consumeBlk, logPc, goShutdown, archiverShutdown,
                   archiverTerminated, nextNum, logCalls, readLog, sentLog,
                   storeLog, pushLog, storeActive, queuedAtStop, sendWaited,
                   avars, ovars, hvars, storeErr, callErr, mvars, cvars>>

\* A waitForReadFlowToComplete that returns without the receive.
waitForReadFlowToCompleteNoWait(s) ==
    /\ Alive /\ stopPc[s] = "wait"
    /\ stopPc' = [stopPc EXCEPT ![s] = "returned"]
    /\ ShutdownFrame
    /\ UNCHANGED <<terminating, shutdownErr, rootCtx, goShutdown, queuedAtStop>>

\* waitForReadFlowToComplete: <-p.consumeReadFlowDone.
waitForReadFlowToComplete(s) ==
    /\ Alive /\ stopPc[s] = "wait"
    /\ consumeReadFlowDone = "closed"
    /\ stopPc' = [stopPc EXCEPT ![s] = "returned"]
    /\ ShutdownFrame
    /\ UNCHANGED <<terminating, shutdownErr, rootCtx, goShutdown, queuedAtStop>>

(***************************************************************************)
(* LogLine.                                                                *)
(***************************************************************************)
LogFrame ==
    UNCHANGED <<terminating, shutdownErr, rootCtx, linesSt, consoleReader,
                consumeReadFlowDone, blocks, blocksSt, stopBlock,
                blockStreamServer, launchPc, ingestPc, ingestBlk, consumePc,
                consumeBlk, stopPc, goShutdown, archiverShutdown,
                archiverTerminated, nextNum, readLog, sentLog, storeLog,
                pushLog, storeActive, queuedAtStop, sendWaited, avars, ovars, hvars, storeErr, callErr, mvars, cvars>>

\* LogLine: `if p.IsTerminating() { return }`.
LogLineCheck ==
    /\ Alive /\ logPc = "idle" /\ logCalls < MaxLines
    /\ logCalls' = logCalls + 1
    /\ logPc' = IF IsTerminating THEN "idle" ELSE "send"
    /\ LogFrame
    /\ UNCHANGED <<lines, panicked>>

\* LogLine: p.lines <- in; sending on a closed channel panics, sending on
\* a nil or full channel waits.
LogLineSend ==
    /\ Alive /\ logPc = "send"
    /\ IF linesSt = "closed"
       THEN /\ panicked' = "send on closed channel"
            /\ UNCHANGED <<lines, logPc>>
       ELSE /\ ChanCanSend(lines, linesSt, LinesCapacity)
            /\ lines' = ChanAfterSend(lines, logCalls)
            /\ logPc' = "idle"
            /\ UNCHANGED panicked
    /\ LogFrame
    /\ UNCHANGED logCalls

(***************************************************************************)
(* The plugin's specification.                                             *)
(***************************************************************************)
Next ==
    \/ LaunchMakeChannels
    \/ LaunchFactory
    \/ launch
    \/ ReadBlockNilReader
    \/ ReadBlockOk
    \/ ReadBlockSkipLine
    \/ ReadBlockErr
    \/ ReadBlockEOF
    \/ IngestSendWait
    \/ IngestSend
    \/ IngestStopCheck
    \/ IngestErrShutdown
    \/ drainMessages
    \/ IngestClose
    \/ ConsumeRecv
    \/ ConsumeClosed
    \/ ArchiverTerminates
    \/ ConsumeExit
    \/ StoreBlockCall
    \/ StoreBlockReturn
    \/ PushBlock
    \/ GoShutdownRun
    \/ ExternalShutdown
    \/ \E s \in StopCallers : StopCall(s)
    \/ \E s \in StopCallers : StopShutdown(s)
    \/ \E s \in StopCallers : StopCloseLines(s)
    \/ \E s \in StopCallers : waitForReadFlowToComplete(s)
    \/ LogLineCheck
    \/ LogLineSend

Spec == Init /\ [][Next]_vars

(***************************************************************************)
(* The previous version of the plugin.  Launch, launch, the sends, the     *)
(* stop block test, the close of `blocks`, the archiver's shutdown, the    *)
(* close of `lines` and LogLine are the steps above; the steps below are   *)
(* the ones it does differently.                                           *)
(***************************************************************************)
\* A gate that lets every block through.
passAll(num) == TRUE

\* p.startGate.pass(block): the gate lets through the blocks from
\* startBlock on.
pass(num) == num >= startBlock

\* readOneMessage: p.consoleReader.Read() returns an object, which
\* p.transformer turns into a block or fails on; a block that does not
\* pass the start gate ends the call with nil, and one that passes is
\* given to the head block update hook.
readOneMessagePrev ==
    /\ version = "previous"
    /\ Alive /\ ingestPc = "read" /\ consoleReader = "set"
    /\ Len(lines) > 0 /\ nextNum <= MaxBlocks
    /\ lines' = Tail(lines)
    /\ nextNum' = nextNum + 1
    /\ \E transformed \in BOOLEAN :
          IF ~transformed
          THEN /\ ingestPc' = "shutdown"
               /\ UNCHANGED <<ingestBlk, readLog, headLog>>
          ELSE /\ readLog' = Append(readLog, nextNum)
               /\ IF pass(nextNum)
                  THEN /\ headBlockUpdate(nextNum)
                       /\ ingestBlk' = nextNum /\ ingestPc' = "send"
                  ELSE UNCHANGED <<ingestBlk, ingestPc, headLog>>
    /\ IngestFrameHook
    /\ UNCHANGED <<terminating, shutdownErr, rootCtx, blocks, blocksSt, goShutdown,
                   sentLog, panicked, sendWaited>>

\* launch(): p.Shutdown(err); continue, after a reader error other than
\* io.EOF: the loop goes on reading.
IngestErrShutdownPrev ==
    /\ version = "previous"
    /\ Alive /\ ingestPc = "shutdown"
    /\ Shutdown("reader")
    /\ ingestPc' = "read"
    /\ IngestFrame
    /\ UNCHANGED <<lines, blocks, blocksSt, ingestBlk, goShutdown, nextNum,
                   readLog, sentLog, panicked, sendWaited>>

\* block, ok := <-blocks with ok; `if dropBlocks { continue }`.
ConsumeRecvPrev ==
    /\ version = "previous"
    /\ Alive /\ consumePc = "recv"
    /\ RecvOk(blocks, blocksSt)
    /\ blocks' = Tail(blocks)
    /\ IF dropBlocks
       THEN UNCHANGED <<consumeBlk, consumePc>>
       ELSE consumeBlk' = Head(blocks) /\ consumePc' = "store"
    /\ ConsumeFrameRecv
    /\ UNCHANGED <<consumeReadFlowDone, goShutdown, archiverShutdown,
                   archiverTerminated, storeLog, pushLog, storeActive>>

\* The select of consumeReadFlow: <-time.After(
\* p.waitUploadCompleteOnShutdown) comes first; return, with the deferred
\* close(p.consumeReadFlowDone).
ConsumeTimeout ==
    /\ version = "previous"
    /\ Alive /\ consumePc = "waitTerminated"
    /\ consumeReadFlowDone' = "closed"
    /\ consumePc' = "exited"
    /\ ConsumeFrame
    /\ UNCHANGED <<blocks, consumeBlk, goShutdown, archiverShutdown,
                   archiverTerminated, storeLog, pushLog, storeActive>>

ConsumeFramePrev ==
    UNCHANGED <<lines, linesSt, consoleReader, blocksSt, stopBlock,
                blockStreamServer, launchPc, ingestPc, ingestBlk, stopPc,
                logPc, nextNum, logCalls, readLog, sentLog, queuedAtStop,
                sendWaited, panicked, terminating, shutdownErr, rootCtx, avars,
                mvars, cvars, hvars, version, startBlock, consumeReadFlowDone,
                blocks,
                archiverShutdown, archiverTerminated, storeLog>>

\* The first error the consumer loop meets while not terminating.
FirstFatal == IF fatalAt = -1 THEN Len(storeLog) ELSE fatalAt

\* StoreBlock returns; on an error while not terminating, dropBlocks = true,
\* `go p.Shutdown(..)` and continue, else go on to the block stream server.
StoreBlockReturnPrev ==
    /\ version = "previous"
    /\ Alive /\ consumePc = "storing"
    /\ storeActive' = storeActive - 1
    /\ \E err \in BOOLEAN :
          IF err /\ ~IsTerminating
          THEN /\ dropBlocks' = TRUE
               /\ fatalAt' = FirstFatal
               /\ goShutdown' = [goShutdown EXCEPT !["store"] = @ + 1]
               /\ consumePc' = "recv"
               /\ consumeBlk' = NoBlock
               /\ storeErr' = FALSE
               /\ callErr' = "store"
          ELSE /\ consumePc' = "push"
               /\ storeErr' = (err /\ blockStreamServer)
               /\ callErr' = IF err THEN "store" ELSE "none"
               /\ UNCHANGED <<goShutdown, consumeBlk, dropBlocks, fatalAt>>
    /\ ConsumeFramePrev
    /\ UNCHANGED pushLog

\* if p.blockStreamServer != nil { PushBlock(block) ... }; next iteration.
\* A PushBlock error leaves dropBlocks as it is.
PushBlockPrev ==
    /\ version = "previous"
    /\ Alive /\ consumePc = "push"
    /\ IF blockStreamServer
       THEN /\ pushLog' = Append(pushLog, consumeBlk)
            /\ \E err \in BOOLEAN :
                  /\ callErr' = IF err THEN "push" ELSE "none"
                  /\ IF err /\ ~IsTerminating
                     THEN /\ goShutdown' = [goShutdown EXCEPT !["push"] = @ + 1]
                          /\ fatalAt' = FirstFatal
                     ELSE UNCHANGED <<goShutdown, fatalAt>>
       ELSE UNCHANGED <<pushLog, goShutdown, fatalAt, callErr>>
    /\ consumeBlk' = NoBlock
    /\ storeErr' = FALSE
    /\ consumePc' = "recv"
    /\ ConsumeFramePrev
    /\ UNCHANGED <<storeActive, dropBlocks>>

\* Stop is entered: `if p.lines == nil { return }`; there is no
\* p.Shutdown(nil) before the close of `lines`.
StopCallPrev(s) ==
    /\ version = "previous"
    /\ Alive /\ stopPc[s] = "idle"
    /\ IF linesSt = "nil"
       THEN /\ stopPc' = [stopPc EXCEPT ![s] = "returnedNotLaunched"]
            /\ UNCHANGED queuedAtStop
       ELSE /\ stopPc' = [stopPc EXCEPT ![s] = "close"]
            /\ queuedAtStop' = Len(blocks)
    /\ ShutdownFrame
    /\ UNCHANGED <<terminating, shutdownErr, rootCtx, goShutdown>>

\* The plugin of either version, as constructed.
InitVersions ==
    /\ PluginInit
    /\ MonitorInit /\ readinessMaxLatency = 0 /\ monitorHeadBlock = FALSE
    /\ oneBlockSuffix = <<"a">> /\ construction = Constructed
    /\ version \in {"current", "previous"}
    /\ startBlock \in IF version = "previous" THEN {0, StartBlockNum} ELSE {0}
    /\ headBlockUpdateFunc = TRUE
    /\ archiver = NewArchiver(PluginBundleSize, FALSE, Hour)
    /\ io = NewTestArchiverIO({})
    /\ scenario = "plugin"
    /\ script = <<>>
    /\ step = 0
    /\ passed = {}
    /\ last = NoCall(archiver, io)

NextVersions ==
    \/ Next
    \/ readOneMessagePrev
    \/ IngestErrShutdownPrev
    \/ ConsumeRecvPrev
    \/ ConsumeTimeout
    \/ StoreBlockReturnPrev
    \/ PushBlockPrev
    \/ \E s \in StopCallers : StopCallPrev(s)

SpecVersions == InitVersions /\ [][NextVersions]_vars

(***************************************************************************)
(* The start gate and the hook: the plugin of either version with a stop   *)
(* block, with or without a head block update hook, and with a start       *)
(* block above the stop block or at 0.                                     *)
(***************************************************************************)
\* The start block of the gate: above StopBlockNum, so that a block at the
\* stop block is one the gate turns away.
GateBlockNum == 3

InitStartGate ==
    /\ PluginInit
    /\ stopBlock = StopBlockNum
    /\ MonitorInit /\ readinessMaxLatency = 0 /\ monitorHeadBlock = FALSE
    /\ oneBlockSuffix = <<"a">> /\ construction = Constructed
    /\ version \in {"current", "previous"}
    /\ startBlock \in {0, GateBlockNum}
    /\ headBlockUpdateFunc \in BOOLEAN
    /\ archiver = NewArchiver(PluginBundleSize, FALSE, Hour)
    /\ io = NewTestArchiverIO({})
    /\ scenario = "plugin"
    /\ script = <<>>
    /\ step = 0
    /\ passed = {}
    /\ last = NoCall(archiver, io)

SpecStartGate == InitStartGate /\ [][NextVersions]_vars

(***************************************************************************)
(* The Monitor's specification.                                            *)
(***************************************************************************)
InitMonitor ==
    /\ PluginInit
    /\ stopBlock = 0
    /\ blockStreamServer = FALSE
    /\ version = "current"
    /\ startBlock = 0
    /\ headBlockUpdateFunc = TRUE
    /\ archiver = NewArchiver(PluginBundleSize, FALSE, Hour)
    /\ io = NewTestArchiverIO({})
    /\ scenario = "monitor"
    /\ script = <<>>
    /\ step = 0
    /\ passed = {}
    /\ last = NoCall(archiver, io)
    /\ MonitorInit
    /\ oneBlockSuffix = <<"a">> /\ construction = Constructed
    /\ readinessMaxLatency \in {0, MaxLatency}
    /\ monitorHeadBlock \in BOOLEAN

NextMonitor ==
    \/ MonitorNotRunning
    \/ MonitorGetInfoFailed
    \/ MonitorGetInfoOk
    \/ MonitorProducerPaused
    \/ MonitorGetDBSize

SpecMonitor == InitMonitor /\ [][NextMonitor]_vars

(***************************************************************************)
(* The construction's specification: a suffix is given, and                *)
(* NewMindReaderPlugin of either version is called with it.                *)
(***************************************************************************)
InitConstruction ==
    /\ PluginInit
    /\ MonitorInit /\ readinessMaxLatency = 0 /\ monitorHeadBlock = FALSE
    /\ stopBlock = 0
    /\ blockStreamServer = FALSE
    /\ version \in {"current", "previous"}
    /\ startBlock = 0
    /\ headBlockUpdateFunc = TRUE
    /\ archiver = NewArchiver(PluginBundleSize, FALSE, Hour)
    /\ io = NewTestArchiverIO({})
    /\ scenario = "plugin"
    /\ script = <<>>
    /\ step = 0
    /\ passed = {}
    /\ last = NoCall(archiver, io)
    /\ oneBlockSuffix \in Suffixes
    /\ construction = NotConstructed

NextConstruction ==
    \/ NewMindReaderPlugin
    \/ NewMindReaderPluginPrev

SpecConstruction == InitConstruction /\ [][NextConstruction]_vars

(***************************************************************************)
(* The Archiver's tests: each a construction of the Archiver, the files    *)
(* the mergeable lane holds, the blocks passed to storeBlock in order, and *)
(* the counts the test asserts at the end.                                 *)
(***************************************************************************)
Expect(merged, deleted, mergeable, uploadable) ==
    [ storedMergedFiles |-> merged, deletedFiles |-> deleted,
      storedMergableOneBlockFiles |-> mergeable,
      storedUploadableOneBlockfiles |-> uploadable ]

TestArchiver_StoreBlockNewBlocks ==
    [ name |-> "StoreBlockNewBlocks",
      bundleSize |-> 5, batchMode |-> FALSE,
      mergeThresholdBlockAge |-> superLongTimeAgo,
      existing |-> {}, bundler |-> NoBundler, endMergingAfter |-> 0,
      blocks |-> << MustNewOneBlockFile(1, Since2021, 1, 0),
                    MustNewOneBlockFile(2, Since2021, 2, 1),
                    MustNewOneBlockFile(3, Since2021, 3, 2),
                    MustNewOneBlockFile(4, Since2021, 4, 3),
                    MustNewOneBlockFile(6, Since2021, 6, 4) >>,
      expect |-> Expect(0, 0, 0, 5) ]

TestArchiver_StoreBlockNewBlocksWithExistingBundlerBlocks ==
    [ name |-> "StoreBlockNewBlocksWithExistingBundlerBlocks",
      bundleSize |-> 5, batchMode |-> FALSE,
      mergeThresholdBlockAge |-> superLongTimeAgo,
      existing |-> { MustNewOneBlockFile(1, Since2021, 1, 0),
                     MustNewOneBlockFile(2, Since2021, 2, 1) },
      bundler |-> AddOneBlockFile(
                      AddOneBlockFile(NewBundler(MathMaxUint64),
                                      MustNewOneBlockFile(1, Since2021, 1, 0)),
                      MustNewOneBlockFile(2, Since2021, 2, 1)),
      endMergingAfter |-> 0,
      blocks |-> << MustNewOneBlockFile(3, Since2021, 3, 2),
                    MustNewOneBlockFile(4, Since2021, 4, 3),
                    MustNewOneBlockFile(6, Since2021, 6, 4) >>,
      expect |-> Expect(0, 0, 0, 5) ]

TestArchiver_StoreBlock_OldBlocksPassThroughBoundary ==
    [ name |-> "StoreBlock_OldBlocksPassThroughBoundary",
      bundleSize |-> 5, batchMode |-> FALSE, mergeThresholdBlockAge |-> Hour,
      existing |-> {}, bundler |-> NoBundler, endMergingAfter |-> 0,
      blocks |-> << MustNewOneBlockFile(1, Since2021, 1, 0),
                    MustNewOneBlockFile(2, Since2021, 2, 1),
                    MustNewOneBlockFile(3, Since2021, 3, 2),
                    MustNewOneBlockFile(4, Since2021, 4, 3),
                    MustNewOneBlockFile(6, Since2021, 6, 4) >>,
      expect |-> Expect(1, 4, 5, 0) ]

TestArchiver_StoreBlock_BundleInclusiveLowerBlock ==
    [ name |-> "StoreBlock_BundleInclusiveLowerBlock",
      bundleSize |-> 5, batchMode |-> FALSE, mergeThresholdBlockAge |-> Hour,
      existing |-> {}, bundler |-> NoBundler, endMergingAfter |-> 0,
      blocks |-> << MustNewOneBlockFile(11, Since2021, 11, 10),
                    MustNewOneBlockFile(5, Since2021, 5, 4),
                    MustNewOneBlockFile(12, Since2021, 12, 11),
                    MustNewOneBlockFile(13, Since2021, 13, 12),
                    MustNewOneBlockFile(14, Since2021, 14, 13),
                    MustNewOneBlockFile(16, Since2021, 16, 14) >>,
      expect |-> Expect(1, 4, 5, 0) ]

TestArchiver_Store_OneBlock_after_last_merge ==
    [ name |-> "Store_OneBlock_after_last_merge",
      bundleSize |-> 5, batchMode |-> FALSE, mergeThresholdBlockAge |-> Hour,
      existing |-> {}, bundler |-> NoBundler, endMergingAfter |-> 5,
      blocks |-> << MustNewOneBlockFile(11, Since2021, 11, 10),
                    MustNewOneBlockFile(12, Since2021, 12, 11),
                    MustNewOneBlockFile(13, Since2021, 13, 12),
                    MustNewOneBlockFile(14, Since2021, 14, 13),
                    MustNewOneBlockFile(16, Since2021, 16, 14),
                    MustNewOneBlockFile(17, Since2021, 17, 16) >>,
      expect |-> Expect(1, 4, 5, 2) ]

TestArchiver_StoreBlock_NewBlocksBatchMode ==
    [ name |-> "StoreBlock_NewBlocksBatchMode",
      bundleSize |-> 5, batchMode |-> TRUE, mergeThresholdBlockAge |-> Hour,
      existing |-> { MustNewOneBlockFile(1, Since2021, 1, 0),
                     MustNewOneBlockFile(2, Since2021, 2, 1) },
      bundler |-> NoBundler, endMergingAfter |-> 0,
      blocks |-> << MustNewOneBlockFile(3, Since2021, 3, 2),
                    MustNewOneBlockFile(4, Since2021, 4, 3),
                    MustNewOneBlockFile(6, Since2021, 6, 4) >>,
      expect |-> Expect(1, 4, 3, 0) ]

TestArchiver_StoreBlock_NewBlocksBatchModeNonConnectedPartial_MultipleBoundaries ==
    [ name |-> "StoreBlock_NewBlocksBatchModeNonConnectedPartial_MultipleBoundaries",
      bundleSize |-> 5, batchMode |-> TRUE, mergeThresholdBlockAge |-> Hour,
      existing |-> { MustNewOneBlockFile(1, Since2021, 1, 0),
                     MustNewOneBlockFile(2, Since2021, 2, 1) },
      bundler |-> NoBundler, endMergingAfter |-> 0,
      blocks |-> << MustNewOneBlockFile(4, Since2021, 4, 3),
                    MustNewOneBlockFile(6, Since2021, 6, 4),
                    MustNewOneBlockFile(7, Since2021, 7, 6),
                    MustNewOneBlockFile(9, Since2021, 9, 7),
                    MustNewOneBlockFile(10, Since2021, 10, 9),
                    MustNewOneBlockFile(11, Since2021, 11, 10) >>,
      expect |-> Expect(2, 4, 6, 0) ]

TestArchiver_OldBlockToNewBlocksPassThrough ==
    [ name |-> "OldBlockToNewBlocksPassThrough",
      bundleSize |-> 5, batchMode |-> FALSE, mergeThresholdBlockAge |-> Day,
      existing |-> {}, bundler |-> NoBundler, endMergingAfter |-> 0,
      blocks |-> << MustNewOneBlockFile(1, Since2000, 1, 0),
                    MustNewOneBlockFile(2, JustNow, 2, 1),
                    MustNewOneBlockFile(3, JustNow, 3, 2),
                    MustNewOneBlockFile(4, JustNow, 4, 3),
                    MustNewOneBlockFile(6, JustNow, 6, 4),
                    MustNewOneBlockFile(6, JustNow, 7, 6),
                    MustNewOneBlockFile(6, JustNow, 8, 7),
                    MustNewOneBlockFile(6, JustNow, 9, 8) >>,
      expect |-> Expect(0, 0, 1, 8) ]

Tests ==
    { TestArchiver_StoreBlockNewBlocks,
      TestArchiver_StoreBlockNewBlocksWithExistingBundlerBlocks,
      TestArchiver_StoreBlock_OldBlocksPassThroughBoundary,
      TestArchiver_StoreBlock_BundleInclusiveLowerBlock,
      TestArchiver_Store_OneBlock_after_last_merge,
      TestArchiver_StoreBlock_NewBlocksBatchMode,
      TestArchiver_StoreBlock_NewBlocksBatchModeNonConnectedPartial_MultipleBoundaries,
      TestArchiver_OldBlockToNewBlocksPassThrough }

TestNamed(n) == CHOOSE t \in Tests : t.name = n

IsTest == scenario \notin {"free", "plugin", "monitor"}

(***************************************************************************)
(* Free runs: any blocks, each passed once, in any order.                  *)
(***************************************************************************)
\* Highest block number of a free run.
MaxNum == 5
\* storeBlock calls of a free run.
MaxSteps == 4
\* Bundle size of a free run.
FreeBundleSize == 2

\* For each num a block on the main chain (id num, parent num-1) and a
\* fork of it that skips a number (id 100+num, parent num-2), each either
\* older than the merge threshold or fresh.
FreeFiles ==
    { MustNewOneBlockFile(n, age, n, n - 1) :
          n \in 1..MaxNum, age \in {JustNow, Day} }
    \cup
    { MustNewOneBlockFile(n, age, 100 + n, n - 2) :
          n \in 2..MaxNum, age \in {JustNow, Day} }

\* What the mergeable lane may hold when a free run starts.
FreeExisting == { {}, {MustNewOneBlockFile(1, Day, 1, 0)} }

(***************************************************************************)
(* The Archiver's specification.                                           *)
(***************************************************************************)
InitArchiver ==
    /\ PluginInit
    /\ MonitorInit /\ readinessMaxLatency = 0 /\ monitorHeadBlock = FALSE
    /\ oneBlockSuffix = <<"a">> /\ construction = Constructed
    /\ stopBlock = 0
    /\ blockStreamServer = FALSE
    /\ version = "current"
    /\ startBlock = 0
    /\ headBlockUpdateFunc = TRUE
    /\ \/ \E t \in Tests :
             /\ scenario = t.name
             /\ archiver = [NewArchiver(t.bundleSize, t.batchMode,
                                        t.mergeThresholdBlockAge)
                               EXCEPT !.bundler = t.bundler]
             /\ io = NewTestArchiverIO(t.existing)
             /\ script = t.blocks
       \/ \E batchMode \in BOOLEAN, existing \in FreeExisting :
             /\ scenario = "free"
             /\ archiver = NewArchiver(FreeBundleSize, batchMode, Hour)
             /\ io = NewTestArchiverIO(existing)
             /\ script = <<>>
    /\ step = 0
    /\ passed = {}
    /\ last = NoCall(archiver, io)

\* One storeBlock call with block f.
StoreBlock(f) ==
    LET r == storeBlock(archiver, io, f)
    IN  /\ archiver' = r.archiver
        /\ io' = r.io
        /\ step' = step + 1
        /\ passed' = passed \cup {f}
        /\ last' = [called |-> TRUE, f |-> f, archiver |-> archiver, io |-> io]

\* The test is about to clear currentlyMerging.
EndMergingDue ==
    /\ IsTest
    /\ TestNamed(scenario).endMergingAfter = step
    /\ step > 0
    /\ archiver.currentlyMerging

\* A test passes its next block to storeBlock.
StoreBlockOfTest ==
    /\ IsTest /\ script # <<>> /\ ~EndMergingDue
    /\ StoreBlock(Head(script))
    /\ script' = Tail(script)
    /\ UNCHANGED <<scenario, pvars, mvars, cvars>>

\* `archiver.currentlyMerging = false`, forced by the test after its fifth
\* block.
EndMergingState ==
    /\ EndMergingDue
    /\ archiver' = [archiver EXCEPT !.currentlyMerging = FALSE]
    /\ UNCHANGED <<io, scenario, script, step, passed, last, pvars, mvars,
                   cvars>>

\* A free run passes any block not passed before.
StoreBlockFree ==
    /\ scenario = "free" /\ step < MaxSteps
    /\ \E f \in FreeFiles :
          /\ f.id \notin FileIds(passed) \cup FileIds(io.walk)
          /\ StoreBlock(f)
    /\ UNCHANGED <<scenario, script, pvars, mvars, cvars>>

NextArchiver ==
    \/ StoreBlockOfTest
    \/ EndMergingState
    \/ StoreBlockFree

SpecArchiver == InitArchiver /\ [][NextArchiver]_vars

\* The counts of the IO, as the tests read them.
Counts(tio) ==
    Expect(tio.storedMergedFiles, tio.deletedFiles,
           tio.storedMergableOneBlockFiles, tio.storedUploadableOneBlockfiles)

\* At the end of each test the counts are the ones it asserts.
TestsPass ==
    (IsTest /\ script = <<>>) => Counts(io) = TestNamed(scenario).expect

(***************************************************************************)
(* Properties of the plugin (checked under Spec).                          *)
(***************************************************************************)
SomeStopReturned == \E s \in StopCallers : stopPc[s] = "returned"

\* C1: ordered shutdown loses no queued block. Once the consumer-done
\* signal has fired or a Stop call on the launched plugin has returned,
\* `blocks` is empty and every block that was ever sent on it has been
\* passed to archiver.StoreBlock, and that call has returned.
C1_NoQueuedBlockLost ==
    (consumeReadFlowDone = "closed" \/ SomeStopReturned)
        => /\ blocks = <<>>
           /\ blocksSt = "closed"
           /\ consumePc = "exited"
           /\ storeLog = sentLog
           /\ storeActive = 0

\* C1 witness: Stop was called while blocks were buffered in `blocks`, it
\* has returned, and all the blocks sent were stored.
C1_Witness ==
    /\ SomeStopReturned
    /\ queuedAtStop >= 1
    /\ Len(sentLog) >= 2
    /\ storeLog = sentLog

\* The block consumeReadFlow has received and not yet passed to StoreBlock.
ConsumerInHand == IF consumePc = "store" THEN <<consumeBlk>> ELSE <<>>

\* The block readOneMessage has read and not yet sent.
IngestInHand == IF ingestPc = "send" THEN <<ingestBlk>> ELSE <<>>

\* C2: the blocks passed to StoreBlock are the blocks the ingest task
\* pushed, in the same order, none skipped or duplicated: what was stored,
\* then the block the consumer holds, then the channel's buffer, is the
\* sequence sent; every block read is sent or still held by the ingest task
\* (a full channel makes it wait, it drops nothing); the buffer never
\* exceeds its capacity; and at most one StoreBlock call is in progress.
C2_StoreOrder ==
    /\ sentLog = storeLog \o ConsumerInHand \o blocks
    /\ readLog = sentLog \o IngestInHand
    /\ \A i \in 1..Len(readLog) : readLog[i] = i
    /\ Len(blocks) <= ChannelCapacity
    /\ storeActive \in {0, 1}
    /\ storeActive = 1 <=> consumePc = "storing"

\* C2 witness: the ingest task has waited on a full channel, and every
\* block read was stored, in order.
C2_Witness ==
    /\ sendWaited
    /\ Len(readLog) = MaxBlocks
    /\ storeLog = readLog
    /\ storeActive = 0

(***************************************************************************)
(* Properties of the Archiver (checked under SpecArchiver).                *)
(***************************************************************************)
\* The ids of the blocks in the k-th merged bundle written.
MergedIds(k) == FileIds(SeqToSet(io.merged[k].files))

\* How many artifacts hold the block: its one-block file in the uploadable
\* lane, and every merged bundle it is part of.
ArtifactsOf(id) ==
    (IF id \in io.uploadable THEN 1 ELSE 0)
        + Cardinality({k \in 1..Len(io.merged) : id \in MergedIds(k)})

\* The latest call's block was older than the merge threshold.
LastOld == last.f.age > last.archiver.mergeThresholdBlockAge

\* The latest call's block was one to merge: batch mode, or the Archiver
\* was still merging and the block was older than the threshold.
LastMerging ==
    /\ last.called
    /\ last.archiver.batchMode \/ (last.archiver.currentlyMerging /\ LastOld)

\* The exclusive upper boundary of the bundle that was open for the latest
\* call's block: the open bundler's, or that of the bundle its num is in.
LastLimit ==
    IF last.archiver.bundler.open
    THEN last.archiver.bundler.limit
    ELSE ((last.f.num \div last.archiver.bundleSize) + 1) * last.archiver.bundleSize

\* The inclusive lower bound of that bundle.
LastLower == LastLimit - last.archiver.bundleSize

\* The latest call's block was one to merge outside batch mode and was
\* below the open bundle's lower bound.
LastBelowLower ==
    LastMerging /\ ~last.archiver.batchMode /\ last.f.num < LastLower

\* What the latest call added to each count of the IO.
LastMergeable ==
    io.storedMergableOneBlockFiles - last.io.storedMergableOneBlockFiles
LastUploadable ==
    io.storedUploadableOneBlockfiles - last.io.storedUploadableOneBlockfiles
LastMerged == io.storedMergedFiles - last.io.storedMergedFiles
LastDeleted == io.deletedFiles - last.io.deletedFiles
LastDownloaded == io.downloadedFiles - last.io.downloadedFiles

\* The files the bundler held when the latest call was made.
LastHeld == IF last.archiver.bundler.open THEN last.archiver.bundler.files ELSE {}

\* C3 as stated: once no more blocks are to come, every block passed to
\* store_block is in exactly one artifact, never in none and never in more
\* than one. A block the bundler still holds for its open bundle is left
\* out: for it the pipeline is not quiescent.
C3_Original ==
    script = <<>> =>
        \A f \in passed \ archiver.bundler.files : ArtifactsOf(f.id) = 1

\* C3 amended: every block passed to store_block (each passed once) is in
\* at most one artifact, and no uploadable one-block file is written twice;
\* a block is in none when it is still in the mergeable lane (held for a
\* bundle not yet complete, or left beside the merged chain), and a block
\* that was written to no lane at all was a block to be merged, outside
\* batch mode, below the lower bound of the bundle open when it was passed.
C3_AtMostOneArtifact ==
    /\ \A f \in passed : ArtifactsOf(f.id) <= 1
    /\ io.storedUploadableOneBlockfiles = Cardinality(io.uploadable)
    /\ (last.called /\ ArtifactsOf(last.f.id) = 0 /\ last.f.id \notin io.mergeable)
           => LastBelowLower

\* C3 witness: of the blocks passed, one is in a merged bundle, one is an
\* uploadable one-block file, and one is in no lane at all.
C3_Witness ==
    /\ \E f \in passed : \E k \in 1..Len(io.merged) : f.id \in MergedIds(k)
    /\ \E f \in passed : f.id \in io.uploadable
    /\ \E f \in passed : ArtifactsOf(f.id) = 0 /\ f.id \notin io.mergeable

LastMerge == io.merged[Len(io.merged)]

\* What C5 says of a call that crosses the boundary: one merge, of the
\* open bundle; its files deleted from the mergeable lane; the crossing
\* block still there.
CrossingMergesOnce ==
    (LastMerging /\ last.f.num >= LastLimit) =>
        /\ LastMerged = 1
        /\ LastMerge.lower = LastLower
        /\ LastDeleted = Len(LastMerge.files)
        /\ FileIds(SeqToSet(LastMerge.files)) \cap io.mergeable = {}
        /\ last.f.id \in io.mergeable

\* Successive merges are of successive bundles, and a call makes at most one.
LowerBoundsAscend ==
    /\ last.called => LastMerged \in {0, 1}
    /\ \A k \in 2..Len(io.merged) : io.merged[k].lower > io.merged[k - 1].lower
    /\ \A k \in 1..Len(io.merged) : io.merged[k].lower % archiver.bundleSize = 0

\* C5 as stated: while the Archiver is merging, every block older than the
\* threshold is written once to the mergeable lane and not to the
\* uploadable lane; a block at or beyond the open bundle's upper boundary
\* makes exactly one merge, whose files are then deleted, and stays
\* mergeable.
C5_Original ==
    /\ (last.called /\ last.archiver.currentlyMerging /\ LastOld) =>
          /\ LastMergeable = 1
          /\ LastUploadable = 0
    /\ CrossingMergesOnce
    /\ LowerBoundsAscend

\* C5 amended: while the Archiver is merging, a block older than the
\* threshold is written once to the mergeable lane unless, outside batch
\* mode, its num is below the lower bound of the open bundle, and then it
\* is written to no lane;
\* it is not written to the uploadable lane; a block at or beyond the open
\* bundle's upper boundary makes exactly one merge, of that bundle, whose
\* files are then deleted from the mergeable lane, and stays mergeable.
C5_OldBlocksMergeable ==
    /\ (last.called /\ last.archiver.currentlyMerging /\ LastOld) =>
          /\ LastUploadable = 0
          /\ IF ~last.archiver.batchMode /\ last.f.num < LastLower
             THEN /\ LastMergeable = 0
                  /\ io.mergeable = last.io.mergeable
                  /\ LastMerged = 0
             ELSE /\ LastMergeable = 1
                  /\ \/ last.f.id \in io.mergeable
                     \/ /\ LastMerged = 1
                        /\ last.f.id \in FileIds(SeqToSet(LastMerge.files))
    /\ CrossingMergesOnce
    /\ LowerBoundsAscend

\* C5 witness: old blocks 1,2,3,4,6 (or the like) at size 5: the call
\* with the block beyond the boundary has made the merge, the counts are 5
\* mergeable writes, 1 merge, 4 deletions and 0 uploadable writes.
C5_Witness ==
    /\ LastMerging /\ LastOld /\ ~last.archiver.batchMode
    /\ last.f.num >= LastLimit
    /\ LastMerged = 1
    /\ Counts(io) = Expect(1, 4, 5, 0)

\* C6: outside batch mode and with no bundler open, a block not older than
\* the merge threshold is written exactly once to the uploadable one-block
\* lane; the call writes nothing to the mergeable lane, merges nothing and
\* deletes nothing.
C6_FreshBlocksUploadable ==
    ( /\ last.called
      /\ ~last.archiver.batchMode
      /\ ~last.archiver.bundler.open
      /\ ~LastOld )
    =>  /\ LastUploadable = 1
        /\ io.uploadable = last.io.uploadable \cup {last.f.id}
        /\ LastMergeable = 0
        /\ io.mergeable = last.io.mergeable
        /\ LastMerged = 0
        /\ LastDeleted = 0
        /\ ~archiver.bundler.open

\* C6 witness: blocks 1,2,3,4,6, none older than the threshold, no
\* bundler: 5 uploadable writes and nothing else.
C6_Witness ==
    /\ last.called /\ ~last.archiver.batchMode /\ ~last.archiver.bundler.open
    /\ ~LastOld
    /\ last.f.num = 6
    /\ Counts(io) = Expect(0, 0, 0, 5)
    /\ io.downloadedFiles = 0

\* In batch mode the mergeable lane is walked by the first call and by no
\* other, and the bundler that call opens holds the files walked; nothing
\* is written to the uploadable lane; the files of every merge, seeded ones
\* too, are deleted from the mergeable lane.
BatchSeedsAndDeletes ==
    /\ io.walkCalls = (IF step = 0 THEN 0 ELSE 1)
    /\ io.storedUploadableOneBlockfiles = 0
    /\ io.uploadable = {}
    /\ \A k \in 1..Len(io.merged) : MergedIds(k) \cap io.mergeable = {}
    /\ last.called => LastDeleted = (IF LastMerged = 1 THEN Len(LastMerge.files) ELSE 0)
    /\ (last.called /\ ~last.archiver.bundler.open /\ LastMerged = 0)
           => io.walk \subseteq archiver.bundler.files

\* C7: in batch mode the first call seeds the bundler from the walk, done
\* once; every block is written once to the mergeable lane and none to the
\* uploadable lane, whatever its age and its num; seeded files are merged
\* and deleted like stored ones.
C7_BatchMode ==
    archiver.batchMode =>
        /\ BatchSeedsAndDeletes
        /\ last.called =>
              /\ LastMergeable = 1 /\ LastUploadable = 0
              /\ \/ last.f.id \in io.mergeable
                 \/ /\ LastMerged = 1
                    /\ last.f.id \in FileIds(SeqToSet(LastMerge.files))

\* C7 witness: seed {1,2}, then 3,4,6 at size 5: one merge at lower 0 that
\* holds the two seeded files, 3 mergeable writes, 4 deletions, 0
\* uploadable writes, one walk.
C7_Witness ==
    /\ archiver.batchMode
    /\ step = 3
    /\ io.walkCalls = 1
    /\ Counts(io) = Expect(1, 4, 3, 0)
    /\ io.merged[1].lower = 0
    /\ FileIds(io.walk) \subseteq MergedIds(1)
    /\ Cardinality(io.walk) = 2

\* C8 as stated: with a bundler set when store_block is called, the block
\* goes to the mergeable lane and is not written to the uploadable lane,
\* whatever its age.
C8_Original ==
    (last.called /\ last.archiver.bundler.open) =>
        /\ LastMergeable = 1
        /\ LastUploadable = 0
        /\ last.f.id \notin io.uploadable

\* C8 amended: with a bundler set when store_block is called, the lane is
\* chosen by the merge decision, not by the bundler. In batch mode, or
\* while the Archiver is still merging and the block is older than the
\* threshold, the block is not written to the uploadable lane and goes to
\* the mergeable lane, unless, outside batch mode, its num is below the
\* open bundle's lower bound. Otherwise the block is written to the
\* uploadable lane, after the
\* files the bundler holds, the bundler is unset and the Archiver is no
\* longer merging.
C8_BundlerSetRouting ==
    (last.called /\ last.archiver.bundler.open) =>
        IF LastMerging
        THEN /\ LastUploadable = 0
             /\ io.uploadable = last.io.uploadable
             /\ LastMergeable = (IF LastBelowLower THEN 0 ELSE 1)
             /\ archiver.bundler.open
        ELSE /\ LastUploadable = Cardinality(LastHeld) + 1
             /\ last.f.id \in io.uploadable
             /\ LastMergeable = 0
             /\ ~archiver.bundler.open
             /\ ~archiver.batchMode /\ ~archiver.currentlyMerging

\* C8 witness: a bundler that holds files 1 and 2 is set, the Archiver is
\* still merging, and a block not older than the threshold has been written
\* to the uploadable lane.
C8_Witness ==
    /\ last.called /\ last.archiver.bundler.open
    /\ last.archiver.currentlyMerging /\ ~LastOld
    /\ Cardinality(LastHeld) = 2
    /\ last.f.id \in io.uploadable
    /\ LastMergeable = 0

\* The blocks passed that were older than the merge threshold.
OldPassed == {f \in passed : f.age > archiver.mergeThresholdBlockAge}

\* Historical-to-live: outside batch mode, exactly one of the blocks passed
\* was older than the threshold, it was written to the mergeable lane (so
\* it came while the Archiver was merging: first), and blocks not older
\* than the threshold followed it.
HistoricalToLive ==
    /\ ~archiver.batchMode
    /\ Cardinality(OldPassed) = 1
    /\ FileIds(OldPassed) \subseteq io.mergeable
    /\ Cardinality(passed) >= 2

\* C9 as stated: one old block followed only by fresh ones is written once
\* to the mergeable lane, never to the uploadable lane, and stays in the
\* mergeable lane; each fresh block is written once to the uploadable
\* lane: as many uploadable writes as fresh blocks (7 for 7), no merge, no
\* deletion.
C9_Original ==
    HistoricalToLive =>
        /\ io.storedMergableOneBlockFiles = 1
        /\ FileIds(OldPassed) \cap io.uploadable = {}
        /\ FileIds(OldPassed) \subseteq io.mergeable
        /\ FileIds(passed \ OldPassed) \subseteq io.uploadable
        /\ io.storedUploadableOneBlockfiles = Cardinality(passed \ OldPassed)
        /\ io.storedMergedFiles = 0
        /\ io.deletedFiles = 0

\* C9 amended: one old block followed only by fresh ones is written once
\* to the mergeable lane and stays there, never merged and never deleted;
\* when the first fresh block comes it is downloaded and written to the
\* uploadable lane as well; each fresh block is written once to the
\* uploadable lane: one uploadable write more than there are fresh blocks
\* (8 for 7), one mergeable write, no merge, no deletion.
C9_HistoricalToLive ==
    HistoricalToLive =>
        /\ io.storedMergableOneBlockFiles = 1
        /\ FileIds(OldPassed) \subseteq io.uploadable
        /\ FileIds(OldPassed) \subseteq io.mergeable
        /\ io.downloadedFiles = 1
        /\ FileIds(passed \ OldPassed) \subseteq io.uploadable
        /\ io.storedUploadableOneBlockfiles = Cardinality(passed \ OldPassed) + 1
        /\ io.storedMergedFiles = 0
        /\ io.deletedFiles = 0
        /\ ~archiver.bundler.open /\ ~archiver.currentlyMerging

\* C9 witness: a block of the year 2000 followed by 7 blocks stamped now:
\* 1 mergeable write, 8 uploadable writes, no merge, no deletion.
C9_Witness ==
    /\ HistoricalToLive
    /\ Cardinality(passed \ OldPassed) = 7
    /\ Counts(io) = Expect(0, 0, 1, 8)

\* C10: when a block that is not to be merged comes while a bundler is
\* set, every file the bundler holds is downloaded and written to the
\* uploadable one-block lane, then the block itself; the bundler is unset;
\* nothing is merged, nothing is deleted, nothing is written to the
\* mergeable lane: the call makes as many uploadable writes as there were
\* files held, plus one.
C10_HeldFilesUploaded ==
    (last.called /\ last.archiver.bundler.open /\ ~LastMerging) =>
        /\ LastDownloaded = Cardinality(LastHeld)
        /\ LastUploadable = Cardinality(LastHeld) + 1
        /\ io.uploadable = last.io.uploadable \cup FileIds(LastHeld) \cup {last.f.id}
        /\ ~archiver.bundler.open
        /\ LastMerged = 0
        /\ LastDeleted = 0
        /\ LastMergeable = 0
        /\ io.mergeable = last.io.mergeable

\* C10 witness: after a merge the bundler held the block that crossed the
\* boundary; the next block was not to be merged, and both were written to
\* the uploadable lane.
C10_Witness ==
    /\ last.called /\ last.archiver.bundler.open /\ ~LastMerging
    /\ Cardinality(LastHeld) >= 1
    /\ LastUploadable = Cardinality(LastHeld) + 1
    /\ io.storedMergedFiles >= 1

(***************************************************************************)
(* Claims about the plugin's shutdown, LogLine and Stop.                   *)
(***************************************************************************)
\* A step in which some task's p.Shutdown(err) call runs: Launch after a
\* failed factory, the ingest task after a reader error, a goroutine
\* started by `go p.Shutdown(..)`, Stop, or the plugin's owner.
ShutdownStep ==
    \/ launchPc = "factory" /\ launchPc' = "start" /\ consoleReader' = "nil"
    \/ ingestPc = "shutdown" /\ ingestPc' # "shutdown"
    \/ \E k \in GoKinds : goShutdown'[k] < goShutdown[k]
    \/ \E s \in StopCallers : stopPc[s] = "shutdown" /\ stopPc'[s] = "close"
    \/ terminating' # terminating

\* The Shutdown calls the plugin makes itself all come after Launch made
\* the root context: the factory error, the reader error, the stop block
\* request, the store and push errors of the consumer, and Stop's
\* Shutdown(nil).
OwnShutdownErrs == {"factory", "reader", "stop", "store", "push", "nil"}

LogLineStep == logCalls' # logCalls \/ logPc' # logPc
                  \/ (Alive /\ panicked' = "send on closed channel")

\* C12: the terminating flag gates LogLine.  A LogLine call made once
\* the flag is set returns without enqueuing and without waiting; a
\* call made before the flag is set enqueues its line on `lines`.
C12_Original ==
    [][ /\ (logPc = "idle" /\ terminating /\ LogLineStep)
              => lines' = lines /\ logPc' = "idle" /\ panicked' = panicked
        /\ (logPc = "send" /\ LogLineStep)
              => /\ lines' = Append(lines, logCalls)
                 /\ logPc' = "idle"
                 /\ panicked' = panicked
      ]_vars

\* C13: a Stop call that finds p.lines nil (Launch has not made it yet)
\* returns at once: it closes nothing and waits for nothing.  A Stop call
\* that finds `lines` made goes on to close it, and returns only once
\* consumeReadFlowDone is closed.
C13_StopWaitsForConsumer ==
    [][ \A s \in StopCallers :
          /\ (Alive /\ stopPc[s] = "idle") => ENABLED StopCall(s)
          /\ (stopPc[s] = "idle" /\ stopPc'[s] # "idle")
                => IF linesSt = "nil"
                   THEN /\ stopPc'[s] = "returnedNotLaunched"
                        /\ UNCHANGED <<lines, linesSt, consumeReadFlowDone,
                                       terminating, panicked>>
                   ELSE stopPc'[s] = "shutdown"
          /\ stopPc[s] = "returnedNotLaunched" => stopPc'[s] = stopPc[s]
          /\ (stopPc[s] = "close" /\ stopPc'[s] # "close")
                => linesSt = "open" /\ linesSt' = "closed"
                      /\ stopPc'[s] = "wait"
          /\ (stopPc[s] = "wait" /\ stopPc'[s] # "wait")
                => consumeReadFlowDone = "closed" /\ stopPc'[s] = "returned"
          /\ stopPc'[s] = "returned"
                => linesSt' = "closed" /\ consumeReadFlowDone' = "closed"
      ]_vars

\* C13 witness: a Stop call made after Launch has returned, with blocks
\* stored meanwhile.
C13_Witness ==
    /\ \E s \in StopCallers : stopPc[s] = "returned"
    /\ launchPc = "done" /\ Len(storeLog) > 0

(***************************************************************************)
(* Scheduling.  The Go runtime runs every goroutine that can take a step:  *)
(* Launch, the ingest goroutine, the consumer, the `go p.Shutdown(..)`     *)
(* goroutines and a Stop call under way each keep going, and a timer that  *)
(* was started fires.  Nothing makes the Archiver terminate, a caller call *)
(* Stop, LogLine or Shutdown, or a LogLine call resume.                    *)
(***************************************************************************)
LaunchNext == LaunchMakeChannels \/ LaunchFactory \/ launch

IngestNext ==
    \/ ReadBlockNilReader \/ ReadBlockOk \/ ReadBlockSkipLine \/ ReadBlockErr
    \/ ReadBlockEOF \/ IngestSend \/ IngestStopCheck \/ IngestErrShutdown
    \/ drainMessages \/ IngestClose \/ readOneMessagePrev
    \/ IngestErrShutdownPrev

ConsumeNext ==
    \/ ConsumeRecv \/ ConsumeClosed \/ ConsumeExit \/ StoreBlockCall
    \/ StoreBlockReturn \/ PushBlock \/ ConsumeRecvPrev
    \/ StoreBlockReturnPrev \/ PushBlockPrev

StopNext(s) ==
    StopShutdown(s) \/ StopCloseLines(s) \/ waitForReadFlowToComplete(s)

FairSpecVersions ==
    /\ SpecVersions
    /\ WF_vars(LaunchNext)
    /\ WF_vars(IngestNext)
    /\ WF_vars(ConsumeNext)
    /\ WF_vars(ConsumeTimeout)
    /\ WF_vars(GoShutdownRun)
    /\ \A s \in StopCallers : WF_vars(StopNext(s))

\* The consumer found `blocks` closed and drained, called
\* p.archiver.Shutdown(nil) and stands at the select.
ConsumerAtSelect == consumePc = "waitTerminated"

\* C14: once `blocks` is closed and drained the consumer has called
\* archiver.Shutdown and leaves the select when the Archiver has terminated
\* or when waitUploadCompleteOnShutdown has elapsed, whichever comes first;
\* so the consumer exits, and a Stop call that waits for it returns, even
\* if the Archiver never signals terminated.
C14_Original ==
    /\ [](ConsumerAtSelect => archiverShutdown)
    /\ [](ConsumerAtSelect => <>(consumePc = "exited" \/ ~Alive))
    /\ \A s \in StopCallers :
          [](stopPc[s] = "wait" => <>(stopPc[s] = "returned" \/ ~Alive))

\* What holds of C14: the same, of the version of consumeReadFlow whose
\* select has the time.After case.
C14_TimeoutEndsTheWait ==
    /\ [](ConsumerAtSelect => archiverShutdown)
    /\ [](version = "previous" /\ ConsumerAtSelect
             => <>(consumePc = "exited" \/ ~Alive))
    /\ \A s \in StopCallers :
          [](version = "previous" /\ stopPc[s] = "wait"
                => <>(stopPc[s] = "returned" \/ ~Alive))

\* C14 witness: the consumer of the version with the time.After case has
\* left the select, and Stop has returned, with the Archiver not terminated.
C14_Witness ==
    /\ version = "previous"
    /\ consumePc = "exited" /\ ~archiverTerminated
    /\ \E s \in StopCallers : stopPc[s] = "returned"

(***************************************************************************)
(* Claims about the consumer loop.                                         *)
(***************************************************************************)
\* One more `go p.Shutdown(..)` of kind k was started, and nothing else
\* changed among the pending ones.
Requested(k) == goShutdown' = [goShutdown EXCEPT ![k] = @ + 1]

\* StoreBlock returns to the consumer.
StoreBlockReturns == consumePc = "storing" /\ consumePc' # "storing"

\* The consumer is past its PushBlock call, or past the test that finds
\* no block stream server.
PushBlockReturns == consumePc = "push" /\ consumePc' # "push"

\* C15: when StoreBlock or PushBlock returns an error while the plugin is
\* not terminating, the consumer starts one Shutdown with the error of that
\* call and goes on to the next receive; when the call returns no error,
\* or the plugin is terminating, no Shutdown is started.  The step neither
\* panics nor ends the loop, and the request is a goroutine, so that the
\* consumer does not wait for it.  The loop ends only on `blocks` closed
\* and drained.
C15_ErrorRequestsShutdown ==
    [][ /\ StoreBlockReturns
              => /\ panicked' = panicked
                 /\ callErr' \in {"none", "store"}
                 /\ IF callErr' = "store" /\ ~terminating
                    THEN consumePc' = "recv" /\ Requested("store")
                    ELSE consumePc' = "push" /\ goShutdown' = goShutdown
        /\ (PushBlockReturns /\ blockStreamServer)
              => /\ panicked' = panicked /\ consumePc' = "recv"
                 /\ callErr' \in {"none", "push"}
                 /\ IF callErr' = "push" /\ ~terminating
                    THEN Requested("push")
                    ELSE goShutdown' = goShutdown
        /\ (PushBlockReturns /\ ~blockStreamServer)
              => /\ panicked' = panicked /\ consumePc' = "recv"
                 /\ goShutdown' = goShutdown /\ pushLog' = pushLog
        /\ (Alive /\ consumePc \in {"storing", "push"})
              => ENABLED (StoreBlockReturn \/ PushBlock
                             \/ StoreBlockReturnPrev \/ PushBlockPrev)
        /\ (consumePc # "waitTerminated" /\ consumePc' = "waitTerminated")
              => consumePc = "recv" /\ blocksSt = "closed" /\ blocks = <<>>
        /\ (shutdownErr' # shutdownErr /\ shutdownErr' \in {"store", "push"})
              => goShutdown[shutdownErr'] > 0
      ]_vars

\* C15 witness: a StoreBlock error and, after it, a PushBlock error of a
\* later block were met while not terminating; both requests are pending
\* and the consumer is storing the next block.
C15_Witness ==
    /\ goShutdown["store"] > 0 /\ goShutdown["push"] > 0
    /\ callErr = "none"
    /\ ~terminating /\ consumePc = "storing"

\* The consumer has a block in hand, for StoreBlock or for PushBlock.
ConsumerProcessing == consumePc \in {"store", "storing", "push"}

\* C16: after a StoreBlock or a PushBlock failure met while not
\* terminating, the blocks still queued are dropped: StoreBlock and
\* PushBlock are called for no later block.  So no block is in the
\* consumer's hands while the Shutdown request of such a failure is
\* pending, and no StoreBlock call is made after the first failure.
C16_Original ==
    /\ (goShutdown["store"] > 0 \/ goShutdown["push"] > 0)
          => ~ConsumerProcessing
    /\ fatalAt # -1 => Len(storeLog) = fatalAt

\* What holds of C16: in the version that has the dropBlocks flag, a
\* StoreBlock failure met while not terminating sets it for good; from
\* then on StoreBlock and PushBlock are called no more, and the consumer
\* goes on receiving from `blocks`, one block a step, until it is closed.
C16_DropAfterStoreFailure ==
    [][ /\ dropBlocks => /\ dropBlocks'
                         /\ storeLog' = storeLog /\ pushLog' = pushLog
                         /\ ~ConsumerProcessing
        /\ (~dropBlocks /\ dropBlocks')
              => /\ version = "previous" /\ ~terminating
                 /\ consumePc = "storing" /\ consumePc' = "recv"
                 /\ Requested("store")
        /\ (Alive /\ dropBlocks /\ consumePc = "recv" /\ blocks # <<>>)
              => ENABLED ConsumeRecvPrev
        /\ (dropBlocks /\ blocks' # blocks /\ Len(blocks') < Len(blocks))
              => blocks' = Tail(blocks) /\ consumeBlk' = NoBlock
      ]_vars

\* C16 witness: the flag is set and the consumer, having dropped what was
\* queued, found `blocks` closed.
C16_Witness ==
    /\ dropBlocks /\ consumePc = "waitTerminated"
    /\ Len(sentLog) > Len(storeLog)

\* C17: archive first, then push.  PushBlock is called for a block only
\* once the StoreBlock call for that block has returned, and before
\* StoreBlock is called for the next block: the block pushed is always the
\* one stored last, no StoreBlock call is under way, and StoreBlock is
\* entered only by a consumer that has just received a block.
C17_ArchiveThenPush ==
    [][ /\ pushLog' # pushLog
              => /\ Len(storeLog) > 0 /\ storeActive = 0
                 /\ pushLog' = Append(pushLog, storeLog[Len(storeLog)])
                 /\ storeLog' = storeLog
                 /\ \A i \in 1..Len(pushLog) :
                       pushLog[i] # storeLog[Len(storeLog)]
        /\ storeLog' # storeLog
              => /\ consumePc = "store" /\ storeActive = 0
                 /\ storeLog' = Append(storeLog, consumeBlk)
                 /\ pushLog' = pushLog
      ]_vars

\* C17 witness: two blocks were stored and pushed, and a third is stored
\* and about to be pushed.
C17_Witness ==
    /\ Len(pushLog) = 2 /\ Len(storeLog) = 3 /\ consumePc = "push"
    /\ blockStreamServer

(***************************************************************************)
(* Claims about the supervisor's Monitor.                                  *)
(***************************************************************************)
\* The count is the number of failed iterations since the last
\* successful or not-running one.
CountIsConsecutiveFailures ==
    /\ monitorLast.kind \in {"ok", "notRunning"} => getInfoFailureCount = 0
    /\ monitorLast.kind = "failed"
          => getInfoFailureCount = monitorLast.count + 1

\* C18: readiness is cleared as soon as 5 consecutive chain-info queries
\* have failed, a successful query or a not-running iteration resetting
\* the count, and not before the 5th.
C18_Original ==
    /\ CountIsConsecutiveFailures
    /\ monitorLast.kind = "failed"
          => IF getInfoFailureCount >= 5
             THEN ~readinessProbe
             ELSE readinessProbe = monitorLast.probe

\* C18 as the code has it: readiness is cleared as soon as 6 consecutive
\* chain-info queries have failed (the count is over 5), and not before
\* the 6th; a successful query or a not-running iteration resets the count.
C18_ClearedAtSixthFailure ==
    /\ CountIsConsecutiveFailures
    /\ monitorLast.kind = "failed"
          => IF getInfoFailureCount >= 6
             THEN ~readinessProbe
             ELSE readinessProbe = monitorLast.probe

\* C18 witness: the 6th failure in a row has cleared a readiness that was
\* on.
C18_Witness ==
    /\ monitorLast.kind = "failed" /\ getInfoFailureCount = 6
    /\ monitorLast.probe /\ ~readinessProbe

\* C19: after a successful chain-info query readiness is set on exactly
\* when the max latency is 0 or the head block's age is at most the max
\* latency, the equal case included.
C19_Original ==
    monitorLast.kind = "ok"
       => IF readinessMaxLatency = 0
             \/ monitorLast.age <= readinessMaxLatency
          THEN readinessProbe
          ELSE readinessProbe = monitorLast.probe

\* C19 as the code has it: after a successful chain-info query readiness
\* is set on exactly when the max latency is 0 or the head block's age is
\* less than the max latency; at an age equal to it readiness is left as
\* it was.
C19_ReadyBelowMaxLatency ==
    monitorLast.kind = "ok"
       => IF readinessMaxLatency = 0
             \/ monitorLast.age < readinessMaxLatency
          THEN readinessProbe
          ELSE readinessProbe = monitorLast.probe

\* C19 witness: a successful query found the head block's age equal to
\* the max latency and left readiness off.
C19_Witness ==
    /\ monitorLast.kind = "ok" /\ readinessMaxLatency # 0
    /\ monitorLast.age = readinessMaxLatency
    /\ ~monitorLast.probe /\ ~readinessProbe

(***************************************************************************)
(* Claims about the ingest loop.                                           *)
(***************************************************************************)
\* C20: with a stop block configured, a block read with a number at or
\* over it is sent on `blocks` first, and only then is the shutdown
\* requested, by a goroutine, so that the ingest loop goes on to its next
\* read without waiting; the request is made unless the plugin is
\* terminating already.  With no stop block, or for a block under it, the
\* read requests no shutdown.
C20_StopBlockPushedThenShutdown ==
    [][ /\ goShutdown'["stop"] # goShutdown["stop"]
              => \/ /\ Requested("stop")
                    /\ ingestPc = "stopcheck" /\ ingestPc' = "read"
                    /\ stopBlock # 0 /\ ingestBlk >= stopBlock
                    /\ Len(sentLog) > 0
                    /\ sentLog[Len(sentLog)] = ingestBlk
                    /\ sentLog' = sentLog
                 \/ /\ goShutdown'["stop"] = goShutdown["stop"] - 1
                    /\ terminating'
        /\ (ingestPc = "stopcheck" /\ ingestPc' # "stopcheck")
              => /\ ingestPc' = "read" /\ panicked' = panicked
                 /\ IF stopBlock # 0 /\ ingestBlk >= stopBlock
                    THEN terminating \/ Requested("stop")
                    ELSE goShutdown' = goShutdown
                 /\ terminating' = terminating
        /\ (Alive /\ ingestPc = "stopcheck") => ENABLED IngestStopCheck
        /\ (ingestPc = "send" /\ ingestPc' # "send")
              => ingestPc' = "stopcheck" /\ goShutdown' = goShutdown
      ]_vars

\* C20 witness: block 2, the stop block, is the first at or over it; it
\* was sent on `blocks`, the shutdown is requested and not yet run, and the
\* ingest loop is back at its read.
C20_Witness ==
    /\ stopBlock = StopBlockNum /\ sentLog = <<1, 2>>
    /\ goShutdown["stop"] = 1 /\ ~terminating
    /\ ingestPc = "read"

\* The ingest task met a reader error other than io.EOF and is on its way
\* out: at p.Shutdown(err), in drainMessages, or at close(blocks).
AfterReaderError == ingestPc \in {"shutdown", "drain"}

\* The ingest task's way out after a reader error, step by step.
ReaderErrorPath ==
    /\ ingestPc = "shutdown"
          => /\ ingestPc' \in {"shutdown", "drain"}
             /\ ingestPc' = "drain"
                   => /\ terminating'
                      /\ ~terminating => shutdownErr' = "reader"
    /\ ingestPc = "drain"
          => /\ ingestPc' \in {"drain", "close"}
             /\ ingestPc' = "close" => lines = <<>> /\ linesSt = "closed"
    /\ ingestPc = "close" => ingestPc' \in {"close", "exited"}
    /\ ingestPc = "exited" => ingestPc' = "exited"
    /\ ingestPc \in {"shutdown", "drain", "close", "exited"}
          => readLog' = readLog /\ sentLog' = sentLog /\ nextNum' = nextNum
    /\ (blocksSt = "open" /\ blocksSt' = "closed")
          => /\ lines = <<>> /\ linesSt = "closed"
             /\ ingestPc = "close" /\ ingestPc' = "exited"

\* C21: on a reader error other than EOF the ingest task requests the
\* shutdown with that error, drains `lines`, closes `blocks` and exits; it
\* reads no block after the error, and `lines` is drained whenever
\* `blocks` is closed.
C21_Original == [][ReaderErrorPath]_vars

\* What holds of C21: the same, of the version whose launch() has
\* drainMessages.
C21_ReaderErrorEndsIngest ==
    [][version = "current" => ReaderErrorPath]_vars

\* C21 witness: after a block was read the reader failed; the shutdown
\* carries the reader's error, `lines` was drained, `blocks` closed, and
\* the ingest task has exited.
C21_Witness ==
    /\ version = "current"
    /\ shutdownErr = "reader" /\ ingestPc = "exited"
    /\ blocksSt = "closed" /\ Len(readLog) > 0 /\ logCalls = MaxLines

(***************************************************************************)
(* C22                                                                     *)
(***************************************************************************)
\* The suffix is made of letters, digits, underscores and dashes only,
\* and of one of them at least.
SuffixWellFormed ==
    /\ oneBlockSuffix # <<>>
    /\ \A i \in DOMAIN oneBlockSuffix :
          oneBlockSuffix[i] \in {"a", "Z", "7", "_", "-"}

\* The construction failed on the suffix.
SuffixRejected ==
    /\ construction.result = "error"
    /\ construction.err \in {"oneblock_suffix cannot be empty",
                             "oneblock_suffix contains invalid characters"}

\* C22 as stated: the construction fails on the suffix, with neither the
\* working directory nor a store created, exactly when the suffix is not
\* made of word characters and dashes, the empty suffix included.
C22_Original ==
    construction.result # "none" =>
       /\ SuffixRejected <=> ~SuffixWellFormed
       /\ SuffixRejected =>
             ~construction.workingDirectory /\ ~construction.stores

\* C22, amended: the construction fails on the suffix, with neither the
\* working directory nor a store created, exactly when the suffix is not
\* made of word characters and dashes; the empty suffix is rejected by
\* the current version and accepted by the previous one.
C22_SuffixValidatedFirst ==
    construction.result # "none" =>
       /\ SuffixRejected <=>
             /\ ~SuffixWellFormed
             /\ (version = "previous" => oneBlockSuffix # <<>>)
       /\ SuffixRejected =>
             ~construction.workingDirectory /\ ~construction.stores

\* C22 witness: the current version was given the empty suffix and failed
\* on it, having created nothing.
C22_Witness ==
    /\ version = "current"
    /\ oneBlockSuffix = <<>>
    /\ SuffixRejected
    /\ ~construction.workingDirectory /\ ~construction.stores

(***************************************************************************)
(* C23                                                                     *)
(***************************************************************************)
\* The steps of the ingest task on io.EOF, and of any task on `blocks`
\* once it is closed.
EndOfStreamPath ==
    /\ (ingestPc = "read" /\ RecvClosed(lines, linesSt)
           /\ ingestPc' # ingestPc)
          => /\ ingestPc' = "close"
             /\ terminating' = terminating /\ shutdownErr' = shutdownErr
             /\ goShutdown' = goShutdown
             /\ blocksSt' = blocksSt /\ blocks' = blocks
    /\ (ingestPc = "close" /\ ingestPc' # ingestPc)
          => /\ ingestPc' = "exited" /\ blocksSt' = "closed"
             /\ terminating' = terminating /\ shutdownErr' = shutdownErr
             /\ goShutdown' = goShutdown
    /\ blocksSt' # blocksSt
          => \/ blocksSt = "nil" /\ blocksSt' = "open"
             \/ /\ blocksSt = "open" /\ blocksSt' = "closed"
                /\ ingestPc = "close" /\ ingestPc' = "exited"
    /\ blocksSt = "closed"
          => /\ ingestPc = "exited" /\ ingestPc' = "exited"
             /\ sentLog' = sentLog
             /\ \/ blocks' = blocks
                \/ blocks # <<>> /\ blocks' = Tail(blocks)

\* C23: on io.EOF the ingest task closes `blocks` and exits without
\* requesting shutdown; `blocks` is closed at most once, by the ingest
\* task only, and nothing is sent on it once it is closed.
C23_EOFClosesBlocksOnce == [][EndOfStreamPath]_vars

\* C23 witness: the reader reached io.EOF after a block was sent; the
\* ingest task closed `blocks` and exited, and it requested no shutdown.
C23_Witness ==
    /\ ingestPc = "exited" /\ blocksSt = "closed"
    /\ Len(sentLog) > 0 /\ shutdownErr # "reader"
    /\ consumePc = "exited"

(***************************************************************************)
(* C24                                                                     *)
(***************************************************************************)
\* What the test of the lower bound ends with: 5 mergeable writes, one
\* merge at lower 10 of blocks 11 to 14, 4 deletions, no uploadable write.
BundleInclusiveLowerBlockTestEnds ==
    (scenario = "StoreBlock_BundleInclusiveLowerBlock" /\ script = <<>>)
       => /\ Counts(io) = Expect(1, 4, 5, 0)
          /\ Len(io.merged) = 1
          /\ io.merged[1].lower = 10
          /\ FileIds(SeqToSet(io.merged[1].files)) = {11, 12, 13, 14}

\* C24 as stated: with a bundle open, every block whose num is below the
\* bundle's inclusive lower bound is written to neither lane and merged
\* into nothing, and leaves the Archiver and the lanes as they were.
C24_Original ==
    /\ (last.called /\ last.archiver.bundler.open /\ last.f.num < LastLower)
          => /\ LastMergeable = 0 /\ LastUploadable = 0
             /\ LastMerged = 0 /\ LastDeleted = 0
             /\ last.f.id \notin io.mergeable \cup io.uploadable
             /\ archiver = last.archiver
             /\ io = last.io
    /\ BundleInclusiveLowerBlockTestEnds

\* C24 amended: with a bundle open, a block below the bundle's inclusive
\* lower bound that the Archiver is to merge outside batch mode (it is
\* still merging and the block is older than the threshold) is written to
\* no lane and merged into nothing, and it leaves the Archiver, its bundler
\* and the lanes as they were, so that what is merged and deleted
\* afterwards is what it would have been without it; a block below the
\* bound that is not to be merged is written to the uploadable lane, and
\* in batch mode it is written to the mergeable lane; the test ends with 5
\* mergeable writes, one merge at lower 10 of blocks 11 to 14, 4 deletions
\* and no uploadable write.
C24_BelowLowerBoundIgnored ==
    /\ (last.archiver.bundler.open /\ LastBelowLower)
          => /\ LastMergeable = 0 /\ LastUploadable = 0
             /\ LastMerged = 0 /\ LastDeleted = 0
             /\ last.f.id \notin io.mergeable \cup io.uploadable
             /\ \A k \in 1..Len(io.merged) : last.f.id \notin MergedIds(k)
             /\ archiver = last.archiver
             /\ io = last.io
    /\ (last.called /\ last.archiver.bundler.open /\ last.f.num < LastLower
           /\ ~LastMerging)
          => /\ LastMergeable = 0 /\ last.f.id \in io.uploadable
    /\ (last.called /\ last.archiver.bundler.open /\ last.f.num < LastLower
           /\ last.archiver.batchMode)
          => /\ LastMergeable = 1 /\ LastUploadable = 0
    /\ BundleInclusiveLowerBlockTestEnds

\* C24 witness: the test has passed block 5 with the bundle of 10 to 14
\* open and block 11 in it.
C24_Witness ==
    /\ scenario = "StoreBlock_BundleInclusiveLowerBlock"
    /\ last.called /\ last.f.num = 5
    /\ last.archiver.bundler.open /\ LastLower = 10
    /\ FileIds(archiver.bundler.files) = {11}

(***************************************************************************)
(* C25                                                                     *)
(***************************************************************************)
\* The files the bundler had accepted when the latest call merged: those
\* it held, those it was seeded with on opening, and the call's block.
LastAccepted ==
    LastHeld \cup {last.f}
        \cup (IF last.archiver.batchMode /\ ~last.archiver.bundler.open
              THEN last.io.walk ELSE {})

\* The num of the block an id names: a block's id is its num, or its num
\* plus 100 for the block of a fork.
NumOfId(id) == id % 100

\* The files of a merge are linked one to the next, and the first of them
\* is linked to a block below the bundle's lower bound, or to none (the
\* first block of the chain): no link is missing from the lower bound up.
ChainedFromLower(m) ==
    /\ Len(m.files) > 0
    /\ \A i \in 2..Len(m.files) : m.files[i].prev = m.files[i - 1].id
    /\ \/ m.files[1].prev = 0
       \/ NumOfId(m.files[1].prev) < m.lower

\* A merge is made only by a call that leaves a block at or beyond the
\* boundary accepted.
MergedOnlyOnCrossing ==
    LastMerged > 0 =>
       /\ LastMerging /\ LastMerged = 1
       /\ LastMerge.lower = LastLower
       /\ \E c \in LastAccepted : c.num >= LastLimit

\* C25 as stated: a bundle is merged only when a block at or beyond its
\* boundary has been seen and the accepted files from its lower bound up
\* are chained by previous_id without a gap; with a link missing no merge
\* is made for the range.
C25_Original ==
    /\ MergedOnlyOnCrossing
    /\ \A k \in 1..Len(io.merged) : ChainedFromLower(io.merged[k])

\* C25 amended: a bundle is merged only when a block at or beyond its
\* boundary has been accepted; the merge holds the accepted files below
\* the boundary that are chained by previous_id back from that block, as
\* far as the chain goes; a missing link ends the chain and does not
\* prevent the merge: the files before it are left out, unmerged and
\* undeleted. The test with block 3 absent makes two merges, at lower 0 of
\* block 4 alone and at lower 5 of blocks 6, 7 and 9, with 6 mergeable
\* writes and 4 deletions, and leaves blocks 1 and 2 in the mergeable lane.
C25_MergedChainBackFromCrossing ==
    /\ MergedOnlyOnCrossing
    /\ LastMerged > 0 =>
          LET files == LastMerge.files
          IN  /\ \A i \in 1..Len(files) :
                    files[i] \in LastAccepted /\ files[i].num < LastLimit
              /\ \A i \in 2..Len(files) : files[i].prev = files[i - 1].id
              /\ Len(files) > 0 =>
                    /\ \E c \in LastAccepted :
                          c.num >= LastLimit /\ c.prev = files[Len(files)].id
                    /\ \A g \in LastAccepted : g.id # files[1].prev
    /\ (scenario = "StoreBlock_NewBlocksBatchModeNonConnectedPartial_MultipleBoundaries"
           /\ script = <<>>)
          => /\ Counts(io) = Expect(2, 4, 6, 0)
             /\ Len(io.merged) = 2
             /\ io.merged[1].lower = 0
             /\ FileIds(SeqToSet(io.merged[1].files)) = {4}
             /\ io.merged[2].lower = 5
             /\ FileIds(SeqToSet(io.merged[2].files)) = {6, 7, 9}
             /\ {1, 2} \subseteq io.mergeable

\* C25 witness: the test, with block 3 absent between 2 and 4, has merged
\* the bundle of 0 to 4 on the arrival of block 6.
C25_Witness ==
    /\ scenario = "StoreBlock_NewBlocksBatchModeNonConnectedPartial_MultipleBoundaries"
    /\ last.called /\ last.f.num = 6
    /\ LastMerged = 1 /\ LastMerge.lower = 0
    /\ ~ChainedFromLower(LastMerge)

(***************************************************************************)
(* C26                                                                     *)
(***************************************************************************)
\* The accepted files, at the latest merge, that share their num with a
\* merged file and are not merged: the blocks of forks left aside.
LastOrphans ==
    {g \in LastAccepted :
        /\ g \notin SeqToSet(LastMerge.files)
        /\ \E f \in SeqToSet(LastMerge.files) : f.num = g.num}

\* C26, the part of it the Archiver's model decides: the blocks of a fork
\* passed to store_block are both in the mergeable lane's writes; a merge
\* holds at most one block of each num, the one on the previous_id chain
\* back from the boundary-crossing block; the other leaves the bundler's
\* accepted set at commit and is in no merge. Whether the other is also
\* deleted from the mergeable lane is not decided here.
C26_ForkOnChainMerged ==
    /\ \A k \in 1..Len(io.merged) :
          \A i, j \in 1..Len(io.merged[k].files) :
              io.merged[k].files[i].num = io.merged[k].files[j].num => i = j
    /\ LastMerged > 0 =>
          \A g \in LastOrphans :
              /\ g \notin archiver.bundler.files
              /\ \A k \in 1..Len(io.merged) : g.id \notin MergedIds(k)
              /\ \A i \in 2..Len(LastMerge.files) :
                    LastMerge.files[i].prev # g.id

\* C26 witness: a merge made with both blocks of a fork accepted, one of
\* them merged and the other left aside.
C26_Witness ==
    /\ LastMerged > 0
    /\ LastOrphans # {}
    /\ LastOrphans \subseteq passed

(***************************************************************************)
(* C27                                                                     *)
(***************************************************************************)
\* A step taken outside batch mode with currentlyMerging cleared: the flag
\* stays cleared, nothing is written to the mergeable lane, nothing is
\* merged or deleted, and the block of a store_block call is written to
\* the uploadable one-block lane, whatever its age.
MergingNeverResumes ==
    (~archiver.batchMode /\ ~archiver.currentlyMerging) =>
       /\ ~archiver'.batchMode /\ ~archiver'.currentlyMerging
       /\ ~archiver'.bundler.open
       /\ io'.storedMergableOneBlockFiles = io.storedMergableOneBlockFiles
       /\ io'.mergeable = io.mergeable
       /\ io'.merged = io.merged
       /\ io'.deletedFiles = io.deletedFiles
       /\ step' # step =>
             /\ last'.f.id \in io'.uploadable
             /\ io'.storedUploadableOneBlockfiles
                   >= io.storedUploadableOneBlockfiles + 1

\* C27: outside batch mode, once currentlyMerging is cleared merging never
\* resumes: every later block goes to the uploadable one-block lane and
\* none to the mergeable lane, old as it may be; the test that clears the
\* flag after the merge made by block 16 ends with 5 mergeable writes, 1
\* merge, 4 deletions and 2 uploadable writes.
C27_MergingNeverResumes ==
    /\ [][MergingNeverResumes]_vars
    /\ []((scenario = "Store_OneBlock_after_last_merge" /\ script = <<>>)
             => /\ Counts(io) = Expect(1, 4, 5, 2)
                /\ {16, 17} \subseteq io.uploadable
                /\ ~archiver.currentlyMerging)

\* C27 witness: the test has passed block 17, older than the threshold,
\* after the flag was cleared, and it went to the uploadable lane.
C27_Witness ==
    /\ scenario = "Store_OneBlock_after_last_merge"
    /\ last.called /\ last.f.num = 17 /\ LastOld
    /\ ~last.archiver.currentlyMerging
    /\ 17 \in io.uploadable /\ 17 \notin io.mergeable

(***************************************************************************)
(* C28                                                                     *)
(***************************************************************************)
\* The blocks of a list that pass the start gate, in order.
Passing(log) == SelectSeq(log, LAMBDA n : n >= startBlock)

\* A step of readOneMessage that made a block of what it read.
BlockRead == readLog' # readLog

\* What readOneMessage does with the block it has just made: below the
\* start block it leaves `blocks`, the hook and the pending shutdowns
\* alone and returns to the next read; else it calls the hook, when there
\* is one, and goes on to push the block.
StartGateStep ==
    /\ BlockRead =>
          LET num == readLog'[Len(readLog')]
          IN  IF num < startBlock
              THEN /\ ingestPc' = "read" /\ ingestBlk' = ingestBlk
                   /\ blocks' = blocks /\ sentLog' = sentLog
                   /\ headLog' = headLog
                   /\ goShutdown' = goShutdown
                   /\ terminating' = terminating
              ELSE /\ ingestPc' = "send" /\ ingestBlk' = num
                   /\ headLog' = IF headBlockUpdateFunc
                                 THEN Append(headLog, num) ELSE headLog
    /\ goShutdown'["stop"] > goShutdown["stop"] =>
          /\ ingestPc = "stopcheck"
          /\ ingestBlk >= startBlock /\ ingestBlk >= stopBlock
          /\ sentLog # <<>> /\ sentLog[Len(sentLog)] = ingestBlk

\* C28: a block below the start block is discarded by the ingest task: it
\* is not pushed into `blocks`, the hook is not called for it, it requests
\* no stop block shutdown and the loop goes to its next read; a block that
\* passes is pushed into `blocks`, with the hook installed or not.
C28_Original ==
    /\ [][StartGateStep]_vars
    /\ [](/\ sentLog \o IngestInHand = Passing(readLog)
          /\ headLog = IF headBlockUpdateFunc THEN Passing(readLog) ELSE <<>>)

\* What holds of C28: the previous version's p.startGate does all of the
\* above; the current version has no gate, and every block it reads is
\* given to the hook, when there is one, and pushed into `blocks`, below
\* the start block or not.
C28_StartGateDiscards ==
    /\ [][version = "previous" => StartGateStep]_vars
    /\ [](version = "previous" =>
            /\ sentLog \o IngestInHand = Passing(readLog)
            /\ headLog = IF headBlockUpdateFunc
                         THEN Passing(readLog) ELSE <<>>)
    /\ [](version = "current" =>
            /\ sentLog \o IngestInHand = readLog
            /\ headLog = IF headBlockUpdateFunc THEN readLog ELSE <<>>)

\* C28 witness: with no hook installed, the blocks below the start block,
\* the stop block among them, were read and discarded, and the block at
\* the start block was then read and pushed.
C28_Witness ==
    /\ version = "previous" /\ ~headBlockUpdateFunc
    /\ startBlock = GateBlockNum /\ stopBlock < startBlock
    /\ Len(readLog) = GateBlockNum
    /\ sentLog = <<GateBlockNum>>
    /\ headLog = <<>>

(***************************************************************************)
(* C29                                                                     *)
(***************************************************************************)
\* C29: under every interleaving of LogLine with Stop and Shutdown, no
\* LogLine call sends on `lines` once Stop has closed it: the send on the
\* closed channel, which panics, is never made.
C29_Original == panicked # "send on closed channel"

(***************************************************************************)
(* C30                                                                     *)
(***************************************************************************)
\* C30: a block whose StoreBlock returned an error is never passed to
\* PushBlock, whether or not the plugin was terminating when the error
\* came.
C30_Original == [][pushLog' # pushLog => ~storeErr]_vars

\* What holds of C30: a block whose StoreBlock returned an error while the
\* plugin was not terminating is not passed to PushBlock; the one held
\* with an error for PushBlock got it with the plugin terminating.
C30_FailedBlockNotPushedUnlessTerminating ==
    [](storeErr => consumePc = "push" /\ terminating)

\* C30 witness: StoreBlock has failed while the plugin was terminating and
\* the consumer is about to pass the block to PushBlock.
C30_Witness ==
    /\ storeErr /\ consumePc = "push" /\ blockStreamServer
    /\ consumeBlk \in SeqToSet(storeLog)

(***************************************************************************)
(* C31                                                                     *)
(***************************************************************************)
\* The ingest task has had a reader error other than io.EOF and is about
\* to call p.Shutdown(err).
ReaderFailed == ingestPc = "shutdown"

\* C31: after a reader error other than io.EOF the ingest task eventually
\* closes `blocks` and the consumer eventually closes consumeReadFlowDone,
\* even if Stop is never called and nothing closes `lines`: a behaviour
\* in which `lines` is closed is not the claim's case and is let pass.
C31_Original ==
    [](ReaderFailed =>
          <>(\/ blocksSt = "closed" /\ consumeReadFlowDone = "closed"
             \/ linesSt = "closed"
             \/ ~Alive))

\* What holds of C31: after a reader error the ingest task closes
\* `blocks` once `lines` has been closed.
C31_ClosedOnceLinesClosed ==
    [](ReaderFailed =>
          [](linesSt = "closed" => <>(blocksSt = "closed" \/ ~Alive)))

\* C31 witness: after the reader's error and the close of `lines` by Stop
\* the ingest task has drained `lines` and closed `blocks`.
C31_Witness ==
    /\ shutdownErr = "reader"
    /\ linesSt = "closed" /\ blocksSt = "closed"
    /\ \E s \in StopCallers : stopPc[s] = "wait"

(***************************************************************************)
(* C32: a Console Reader factory that fails in Launch.                     *)
(***************************************************************************)
\* Launch has gone past the factory call and the factory returned an error:
\* p.consoleReader holds the nil reader.
FactoryFailed == launchPc \in {"start", "done"} /\ consoleReader = "nil"

\* C32 (as stated): when the Console Reader factory returns an error in
\* Launch, no ingest task is started that reads from the missing reader:
\* no goroutine calls ReadBlock (Read) on the nil reader.
C32_Original ==
    FactoryFailed => panicked # "nil console reader"

\* C32 (the part that holds): the step of Launch in which the factory fails
\* requests shutdown with the factory's error: the plugin is terminating
\* after it, with that error unless a shutdown had been requested before.
C32_ShutdownRequested ==
    [][launchPc = "factory" /\ launchPc' = "start" /\ consoleReader' = "nil"
          => /\ terminating'
             /\ shutdownErr' = IF terminating THEN shutdownErr ELSE "factory"]_vars

\* C32 witness: the factory failed, shutdown was requested with its error,
\* and the ingest goroutine that Launch started all the same has called
\* ReadBlock on the nil reader.
C32_Witness ==
    /\ FactoryFailed
    /\ terminating /\ shutdownErr = "factory"
    /\ panicked = "nil console reader"

(***************************************************************************)
(* C33: the order of the consumer's last calls.                            *)
(***************************************************************************)
\* The step in which the consumer calls p.archiver.Shutdown(nil).
ConsumerCallsArchiverShutdown ==
    consumePc = "recv" /\ consumePc' = "waitTerminated"

\* The step in which consumeReadFlow returns and its deferred close of
\* consumeReadFlowDone runs.
ConsumerDoneFires ==
    consumeReadFlowDone # "closed" /\ consumeReadFlowDone' = "closed"

\* C33: the consumer calls archiver.Shutdown at most once, and only when
\* `blocks` is closed and holds no block any more; from that call on no
\* StoreBlock is entered or under way; consumer-done is closed at most once,
\* only by the consumer that has made the call, and is closed then once the
\* Archiver has terminated (or, in the previous version, the wait has timed
\* out).
C33_ShutdownOrder ==
    /\ [](archiverShutdown =>
             /\ blocksSt = "closed" /\ blocks = <<>>
             /\ consumePc \in {"waitTerminated", "exited"}
             /\ consumeBlk = NoBlock /\ storeActive = 0)
    /\ [](consumeReadFlowDone = "closed" =>
             archiverShutdown /\ consumePc = "exited")
    /\ [][/\ ConsumerCallsArchiverShutdown =>
                ~archiverShutdown /\ archiverShutdown'
          /\ storeLog' # storeLog => ~archiverShutdown
          /\ ConsumerDoneFires =>
                archiverShutdown /\ consumePc = "waitTerminated"
          /\ consumePc = "exited" =>
                consumePc' = "exited" /\ consumeReadFlowDone' = "closed"]_vars
    /\ (archiverShutdown /\ (archiverTerminated \/ version = "previous")
           ~> (consumeReadFlowDone = "closed" \/ ~Alive))

\* C33 witness: both blocks that were sent have been stored, `blocks` is
\* closed and drained, archiver.Shutdown has been called and consumer-done
\* has fired.
C33_Witness ==
    /\ Len(storeLog) >= 2 /\ Len(storeLog) = Len(sentLog)
    /\ blocksSt = "closed" /\ blocks = <<>>
    /\ archiverShutdown
    /\ consumePc = "exited" /\ consumeReadFlowDone = "closed"

(***************************************************************************)
(* C34: Stop called again.  The plugin of either version, whose owner      *)
(* calls Stop once more after a call of Stop on the launched plugin has    *)
(* returned.                                                               *)
(***************************************************************************)
\* The caller whose Stop has returned calls Stop again.
StopAgain(s) ==
    /\ Alive /\ stopPc[s] = "returned"
    /\ stopPc' = [stopPc EXCEPT ![s] = "idle"]
    /\ ShutdownFrame
    /\ UNCHANGED <<terminating, shutdownErr, rootCtx, goShutdown, queuedAtStop>>

NextStopTwice ==
    \/ NextVersions
    \/ \E s \in StopCallers : StopAgain(s)

SpecStopTwice == InitVersions /\ [][NextStopTwice]_vars

\* C34 (as stated): Stop is safe to call more than once on a launched
\* plugin: a call of Stop never closes the `lines` channel that an earlier
\* call has closed, so no call panics on the close of a closed channel.
C34_Original ==
    panicked # "close of closed channel"

\* C34 (what holds): a call of Stop that finds `lines` closed never gets to
\* waitForReadFlowToComplete: its close(p.lines) panics, and `lines` stays
\* closed.
C34_SecondStopNeverReturns ==
    [][\A s \in StopCallers :
          stopPc[s] = "close" /\ linesSt = "closed"
             => stopPc'[s] = "close" /\ linesSt' = "closed"]_vars

\* C34 witness: the first Stop has returned after consumer-done, Stop was
\* called again, and its close(p.lines) has panicked.
C34_Witness ==
    /\ consumeReadFlowDone = "closed" /\ linesSt = "closed"
    /\ \E s \in StopCallers : stopPc[s] = "close"
    /\ panicked = "close of closed channel"

(***************************************************************************)
(* C35: what an iteration of Monitor does to the readiness probe.          *)
(***************************************************************************)
\* C35: in every iteration of Monitor, readiness goes from on to off only
\* in an iteration whose GetInfo failed and brought the count of
\* consecutive failures over the threshold; an iteration whose GetInfo
\* succeeded leaves readiness on when it was on, whatever the age of the
\* head block; an iteration that finds the node not running resets the
\* failure count, queries nothing and leaves readiness as it was.
C35_ReadinessClearedOnlyByFailures ==
    [][/\ readinessProbe /\ ~readinessProbe' =>
             /\ monitorLast'.kind = "failed"
             /\ getInfoFailureCount' = getInfoFailureCount + 1
             /\ getInfoFailureCount' > ReadinessFailureThreshold
       /\ monitorLast'.kind = "ok" =>
             /\ readinessProbe => readinessProbe'
             /\ "GetInfo" \in monitorLast'.queried
       /\ monitorLast'.kind = "notRunning" =>
             /\ getInfoFailureCount' = 0
             /\ monitorLast'.queried = {}
             /\ readinessProbe' = readinessProbe]_vars

\* C35 witness: readiness was on, the last iteration got a head block older
\* than the configured max latency, and readiness is still on.
C35_Witness ==
    /\ readinessMaxLatency > 0
    /\ monitorLast.kind = "ok" /\ monitorLast.age > readinessMaxLatency
    /\ monitorLast.probe /\ readinessProbe

====
